---- MODULE Spec2Model ----
(***************************************************************************)
(* Model of the gauss streaming platform.                                  *)
(*                                                                         *)
(*  Spec             topic-engine: Topic::subscribe / Topic::publish over  *)
(*                   a storage and bounded mpsc subscriber channels, two   *)
(*                   concurrent callers of publish                         *)
(*                   (src/libs/topic-engine/src/lib.rs).                   *)
(*  OnePublisherSpec the same topic with one caller of publish.            *)
(*  NonBlockingSpec  one caller of publish that the runtime keeps polling. *)
(*  LiveSpec         the same with fair send tasks and back-pressure       *)
(*                   subscribers that keep reading.                        *)
(*  SaveSpec         one caller of publish, and Topic::save of gauss-engine*)
(*                   (src/libs/gauss-engine/src/topic.rs).                 *)
(*  RegistrySpec     TopicRegistry::register and its callers.              *)
(*  EngineSpec       gauss-engine: Engine::bootstrap and Engine::reload    *)
(*                   (src/libs/gauss-engine/src/bootstrap.rs).             *)
(***************************************************************************)
EXTENDS Naturals, Integers, Sequences, FiniteSets, TLC

\* ------------------------------------------------------------------------
\* Bounds and inputs
\* ------------------------------------------------------------------------

\* Number of publish calls made on the topic.
MaxRecords == 2

\* Largest channel buffer a subscriber asks for.
MaxBuffer == 1

\* Concurrent callers of Topic::publish.
Publishers == {1, 2}

\* The subscribe calls made on the topic, in call order.
SubIds == {1, 2}

\* OverflowPolicy
Policies == {"Drop", "BackPressure"}

\* Number of Engine::reload calls.
MaxReloads == 2

\* Number of direct TopicRegistry::register calls per topic name.
MaxRegistrations == 3

\* Longest middleware list of an endpoint.
MaxChain == 2

\* Longest payload of the codec, in bytes.
MaxPayload == 2

\* Number of records that arrive on the trigger topic of a processor.
MaxProcRecords == 3

\* Number of [[sinks]] or [[sources]] entries of a server config.
MaxEndpoints == 2

\* Number of connections the transport of an endpoint hands out.
MaxConns == 2

\* conn_buffer, the capacity of the connection channel of an endpoint.
ConnBuffer == 1

\* Number of bytes the peer of a source connection sends.
MaxWire == 3

\* Number of records a sink connection is sent.
MaxSinkRecords == 2

\* Calls of save on one storage backend.
MaxSaves == 2

\* The largest limit of a query.
MaxLimit == 1

\* ReadParams.limit of a Query read when none is given.
DefaultQueryLimit == 1000

\* The longest payload handed to the lines framing.
MaxLine == 3

\* Subscribers of the topic when a publish pass begins.
MaxPassSubs == 3

\* Topics a pipeline sink subscribes to.
MaxMergeTopics == 2

\* Records the subscription of one topic yields.
MaxMergeRecords == 2

\* sink_buffer: capacity of the merge channel.
MergeBuffer == 2

\* Records the task of a pipeline sink feeds to its broadcast.
MaxFanRecords == 4

\* sink_buffer: capacity of the broadcast channel.
FanBuffer == 2

\* Calls of Topic::save on the topic a reader reads.
MaxRingSaves == 3

\* Calls of recv that return.
MaxReturned == 3

\* Calls of Engine::reload on the engine whose processors are reloaded.
MaxRespawnReloads == 2

\* Client actions handled on a WebSocket connection.
MaxWsActions == 3

\* Records published while the connection is open.
MaxWsRecords == 2

\* AppState.ws_buffer: capacity of the mux channel.
WsBuffer == 2

\* b'\n', the byte that ends a line.
NL == 10

\* b'\r', the byte the lines framing trims from the end of a line.
CR == 13

\* QS_ABI_VERSION of gauss-api, the ABI of the gauss-engine plugin host.
QS_ABI_VERSION == 2

\* QS_ABI_VERSION of server-api, the ABI of the plugin-host crate.
SERVER_QS_ABI_VERSION == 3

\* Topic names of the configurations, in the order the files list them.
TopicNames == {"A", "C"}
TopicOrder == <<"A", "C">>

\* Storage plugin paths; "bad" has no .so extension.
StoragePlugins == {"p1.so", "p2.so", "bad"}

\* storage_config subtrees: a postmaster parameter pm and a sighup parameter sh.
StorageConfigs == {[pm |-> 1, sh |-> 1], [pm |-> 1, sh |-> 2], [pm |-> 2, sh |-> 1]}

\* TopicConfig: topic "A" with every plugin and storage_config, topic "C"
\* with one storage_config.
TopicConfigs ==
    [name : {"A"}, storage : StoragePlugins, storage_config : StorageConfigs]
    \cup [name : {"C"}, storage : {"p1.so", "bad"},
          storage_config : {[pm |-> 1, sh |-> 1]}]

\* ProcessorConfig: one processor "P", with its plugin path and source topic.
ProcessorConfigs == [name : {"P"}, plugin : {"q.so", "bad"}, source : TopicNames]

\* GaussConfig.topics: no name twice, names in file order.
TopicLists ==
    {<<>>} \cup {<<tc>> : tc \in TopicConfigs}
           \cup {<<a, c>> : a \in {tc \in TopicConfigs : tc.name = TopicOrder[1]},
                            c \in {tc \in TopicConfigs : tc.name = TopicOrder[2]}}

\* GaussConfig.processors
ProcessorLists == {<<>>} \cup {<<pc>> : pc \in ProcessorConfigs}

\* GaussConfig
Configs == [topics : TopicLists, processors : ProcessorLists]

EmptyConfig == [topics |-> <<>>, processors |-> <<>>]

\* No Topic under a name of the registry.
NoTopic == [inst |-> 0, plugin |-> "", params |-> [pm |-> 0, sh |-> 0]]

VARIABLES
    saved,          \* storage: the records whose save returned Ok, in save order
    subs,           \* Topic.subscribers: Vec<Subscriber>, as subscriber ids
    subState,       \* per subscriber: "none" | "live" | "closed" (receiver dropped)
    overflow,       \* Subscriber.overflow
    buffer,         \* capacity of the subscriber's mpsc channel
    queue,          \* contents of the subscriber's mpsc channel
    received,       \* records the live MpscSubscription has yielded, in order
    savedAtSub,     \* storage contents when the subscribe call was made
    tasks,          \* detached back-pressure send tasks: [sub, rec]
    lock,           \* holder of subscribers.write(): 0 free, else a publisher
    i,              \* loop index of the lock holder (1-based; 0 outside the loop)
    pc,             \* per publisher: "idle" | "lock" | "iter"
    rec,            \* per publisher: the record of its current/last call
    result,         \* per publisher: result of its last call
    nextRec,        \* next record id
    nextSub,        \* next subscriber id
    registry,       \* TopicRegistry.topics: name -> the Topic registered
    created,        \* per name: Topic instances created so far
    processors,     \* Engine.processors: Vec<ProcessorSlot>
    running,        \* processor tasks that were spawned and not told to stop
    spawned,        \* per processor name: tasks spawned so far
    config,         \* Engine.config: the live GaussConfig
    reloads,        \* reload calls made
    lastReload,     \* outcome of the last reload: "none", "Ok" or the error
    reloadTopics,   \* topics of the config the last reload was given
    reconfigured,   \* reconfigure calls the last reload made: topic, values
    stored,         \* gauss-engine Topic: records its storage holds
    notified,       \* gauss-engine Topic: signals sent on notify_tx
    saveResult,     \* gauss-engine Topic: result of the last save
    host,           \* plugin load: the loader, "plugin-host" or "gauss-engine"
    plugin,         \* plugin load: the .so file being loaded
    loadPc,         \* plugin load: position of the loader, then of the handle
    libRefs,        \* plugin load: open references to the library
    object,         \* plugin load: the plugin object, "none", "alive", "destroyed"
    abiCalled,      \* plugin load: qs_abi_version was called
    createResolved, \* plugin load: the create symbol was looked up and found
    createInvoked,  \* plugin load: the create function was called
    probing,        \* plugin load: a reload holds a second PluginLib of the file
    declared,       \* config decoding: the plugin's declared parameters
    subtree,        \* config decoding: the config subtree of the source file
    decoded,        \* config decoding: "none", or the result of the decoding
    chain,          \* endpoint: the middleware list
    payload,        \* endpoint: the bytes the codec produced
    encoded,        \* endpoint: "none", or what encode_to_wire hands to framing
    frameOut,       \* endpoint: "none", or what decode_frame hands to the codec
    sinkCodec,      \* sink: the data format of the endpoint codec
    sinkMw,         \* sink: the middleware list of the endpoint
    sinkRx,         \* sink: records the connection has still to receive
    sinkConn,       \* sink: the connection worker, "open" or "closed"
    written,        \* sink: the buffers written to the stream, in order
    encodeCalls,    \* sink: the records codec.encode was called with
    sinkLog,        \* sink: what the connection worker logged, in order
    maxLength,      \* source: max_length of the lines framing (0: no limit)
    srcIn,          \* source: bytes the peer has still to send
    srcBuf,         \* source: buf, the bytes read and not yet framed
    srcPhase,       \* source: the worker is at framing.decode ("decode") or stream.read ("read")
    srcConn,        \* source: the connection worker, "open" or "closed"
    srcSent,        \* source: the frames whose records were sent to the source task
    srcLog,         \* source: what the connection worker logged, in order
    srcError,       \* source: the error the decode chain raised in the last step
    transport,      \* endpoint tasks: the transport plugin, "tcp-server" or "tcp-client"
    connOverflow,   \* endpoint tasks: conn_overflow, the policy of the connection channel
    acceptor,       \* endpoint tasks: the blocking acceptor thread
    receiver,       \* endpoint tasks: the connection receiver task
    mainTask,       \* endpoint tasks: the source or sink task whose handle the App holds
    workers,        \* endpoint tasks: per connection, its blocking worker
    connQueue,      \* endpoint tasks: streams in the connection channel
    accepted,       \* endpoint tasks: connections the transport has handed out
    token,          \* endpoint tasks: the CancellationToken is cancelled
    serve,          \* endpoint tasks: position of App::serve
    died,           \* endpoint tasks: workers that ended by the death of their connection
    acceptedAfterDeath, \* endpoint tasks: a connection was accepted after a death
    endpoints,      \* server config: the [[sinks]] or [[sources]] entries, in file order
    validated,      \* server config: the entries validate was called on, with its result
    spawnedAs,      \* server config: how bootstrap went on with each accepted entry
    bootstrapped,   \* server config: "running", or how the bootstrap loop ended
    procHost,       \* processor: the task, of "pipeline" or of "gauss-engine"
    procIn,         \* processor: per record still to come on the trigger topic, whether handling it fails
    procPc,         \* processor: the task, "running" or how it ended
    procDone,       \* processor: records handled, with the result of each
    procLog,        \* processor: what the task logged, in order
    backend,        \* the storage backend and its configuration
    files,          \* the records the backend holds, per file or buffer, in stored order
    savedOk,        \* the records whose save returned Ok, in save order
    saveFailed,     \* the records whose save returned Err
    lastQuery,      \* the TopicQuery that queryResult answers
    queryResult,    \* what the last query returned, while no save followed it
    lineX,          \* the payload handed to LinesFraming::encode
    lineMax,        \* LinesFraming.max_length
    lineWire,       \* the buffer encode appended to
    lineOut,        \* the result of LinesFraming::decode on that buffer
    linePc,         \* the step of the round trip: start, encoded or decoded
    passSubs,       \* publish pass: subs, the Vec<Subscriber> under the write lock
    passPolicy,     \* publish pass: Subscriber.overflow of each subscriber
    passClosed,     \* publish pass: subscribers whose receiver is dropped
    passClosedAtStart, \* publish pass: those already dropped when the lock was taken
    passI,          \* publish pass: the loop index i (1-based)
    passAttempts,   \* publish pass: subscribers handed the record, in order
    passPc,         \* publish pass: iter inside the loop, done after it
    mergeTopics,    \* sink merge: number of topics the sink subscribed to
    yielded,        \* sink merge: per topic, records its subscription yielded so far
    inHand,         \* sink merge: per topic, the record its forwarder is sending (0: none)
    fwd,            \* sink merge: per topic, the forwarder task, running or ended
    mergeQ,         \* sink merge: the merge mpsc channel
    bcast,          \* sink merge: records given to bcast_tx.send, in order
    mergeMain,      \* sink merge: the task of the sink, running or finished
    mergeToken,     \* sink merge: whether the token is cancelled
    fanStage,       \* sink fan-out: where the connection is, from none to serving or dead
    fanRx,          \* sink fan-out: the broadcast receiver of the connection
    fanLagged,      \* sink fan-out: whether that receiver lost records to lag
    fanFed,         \* sink fan-out: records given to bcast_tx.send, in order
    fanFedAfterAccept, \* sink fan-out: those given after next_connection returned the stream
    fanWritten,     \* sink fan-out: records written to the connection
    ringConf,       \* topic reader: storage_size and write_full of the ring buffer
    ring,           \* topic reader: MemoryRingBuffer.buffer, entries of offset and record
    ringNext,       \* topic reader: MemoryRingBuffer.next_offset
    ringSaves,      \* topic reader: save calls made, all of which returned Ok
    readMode,       \* topic reader: RegistryTopicReader.mode
    rdOffset,       \* topic reader: RegistryTopicReader.offset
    rdPc,           \* topic reader: recv is not called (idle), reads, or waits for a signal
    rdSignals,      \* topic reader: signals waiting in notify_rx
    rdReturned,     \* topic reader: what the recv calls returned, in order
    rdDue,          \* topic reader: a save returned Ok while the pending recv was running
    rsConfig,       \* processor reload: Engine.config
    rsSlots,        \* processor reload: Engine.processors, the slots held
    rsRunning,      \* processor reload: processor tasks that have not ended
    rsOrphans,      \* processor reload: live tasks whose slot was dropped without a join
    rsSpawned,      \* processor reload: instances spawned so far per processor name
    rsReloads,      \* processor reload: calls of Engine::reload made
    rsLast,         \* processor reload: what the last reload returned
    wsSubs,         \* WebSocket: subs of ws_connection, per topic whether it has an entry and its key filter
    wsByKey,        \* WebSocket: topics of subs that the client subscribed with a key
    wsSubQ,         \* WebSocket: per topic, keys of the records waiting in its Subscription
    wsMux,          \* WebSocket: records waiting in the mux channel
    wsSent,         \* WebSocket: messages sent on the socket, in order
    wsActions,      \* WebSocket: client actions handled
    wsPublished,    \* WebSocket: records published to the topics
    wsOpen          \* WebSocket: the loop of ws_connection is running

topicVars == <<saved, subs, subState, overflow, buffer, queue, received,
               savedAtSub, tasks, lock, i, pc, rec, result, nextRec, nextSub>>

engineVars == <<registry, created, processors, running, spawned, config,
                reloads, lastReload, reloadTopics, reconfigured>>

saveVars == <<stored, notified, saveResult>>

pluginVars == <<host, plugin, loadPc, libRefs, object, abiCalled,
                createResolved, createInvoked, probing>>

decodeVars == <<declared, subtree, decoded>>

wireVars == <<chain, payload, encoded, frameOut>>

\* Variable groups of the endpoint, processor and storage models.
sinkVars == <<sinkCodec, sinkMw, sinkRx, sinkConn, written, encodeCalls,
              sinkLog>>

sourceVars == <<maxLength, srcIn, srcBuf, srcPhase, srcConn, srcSent,
                srcLog, srcError>>

taskVars == <<transport, connOverflow, acceptor, receiver, mainTask,
              workers, connQueue, accepted, token, serve, died,
              acceptedAfterDeath>>

cfgVars == <<endpoints, validated, spawnedAs, bootstrapped>>

procVars == <<procHost, procIn, procPc, procDone, procLog>>

storeVars == <<backend, files, savedOk, saveFailed, lastQuery, queryResult>>

linesVars == <<lineX, lineMax, lineWire, lineOut, linePc>>

passVars == <<passSubs, passPolicy, passClosed, passClosedAtStart, passI,
              passAttempts, passPc>>

mergeVars == <<mergeTopics, yielded, inHand, fwd, mergeQ, bcast, mergeMain,
               mergeToken>>

fanVars == <<fanStage, fanRx, fanLagged, fanFed, fanFedAfterAccept,
             fanWritten>>

readerVars == <<ringConf, ring, ringNext, ringSaves, readMode, rdOffset,
                rdPc, rdSignals, rdReturned, rdDue>>

respawnVars == <<rsConfig, rsSlots, rsRunning, rsOrphans, rsSpawned,
                 rsReloads, rsLast>>

wsVars == <<wsSubs, wsByKey, wsSubQ, wsMux, wsSent, wsActions,
            wsPublished, wsOpen>>

pipeVars == <<sinkVars, sourceVars, taskVars, cfgVars, procVars,
              storeVars, linesVars, passVars, mergeVars, fanVars,
              readerVars, respawnVars, wsVars>>

baseVars == <<topicVars, engineVars, saveVars, pluginVars, decodeVars, wireVars>>

OtherThanSink == <<baseVars, sourceVars, taskVars, cfgVars, procVars,
                   storeVars, linesVars, passVars, mergeVars, fanVars,
                   readerVars, respawnVars, wsVars>>

OtherThanSource == <<baseVars, sinkVars, taskVars, cfgVars, procVars, storeVars,
                     linesVars, passVars, mergeVars, fanVars, readerVars,
                     respawnVars, wsVars>>

OtherThanTask == <<baseVars, sinkVars, sourceVars, cfgVars, procVars,
                   storeVars, linesVars, passVars, mergeVars, fanVars,
                   readerVars, respawnVars, wsVars>>

OtherThanCfg == <<baseVars, sinkVars, sourceVars, taskVars, procVars,
                  storeVars, linesVars, passVars, mergeVars, fanVars,
                  readerVars, respawnVars, wsVars>>

OtherThanProc == <<baseVars, sinkVars, sourceVars, taskVars, cfgVars,
                   storeVars, linesVars, passVars, mergeVars, fanVars,
                   readerVars, respawnVars, wsVars>>

OtherThanStore == <<baseVars, sinkVars, sourceVars, taskVars, cfgVars, procVars,
                    linesVars, passVars, mergeVars, fanVars, readerVars,
                    respawnVars, wsVars>>

OtherThanLines == <<baseVars, sinkVars, sourceVars, taskVars, cfgVars, procVars,
                    storeVars, passVars, mergeVars, fanVars, readerVars,
                    respawnVars, wsVars>>

OtherThanPass == <<baseVars, sinkVars, sourceVars, taskVars, cfgVars, procVars,
                   storeVars, linesVars, mergeVars, fanVars, readerVars,
                   respawnVars, wsVars>>

OtherThanMerge == <<baseVars, sinkVars, sourceVars, taskVars, cfgVars, procVars,
                    storeVars, linesVars, passVars, fanVars, readerVars,
                    respawnVars, wsVars>>

OtherThanFan == <<baseVars, sinkVars, sourceVars, taskVars, cfgVars, procVars,
                  storeVars, linesVars, passVars, mergeVars, readerVars,
                  respawnVars, wsVars>>

OtherThanReader == <<baseVars, sinkVars, sourceVars, taskVars, cfgVars, procVars,
                     storeVars, linesVars, passVars, mergeVars, fanVars,
                     respawnVars, wsVars>>

OtherThanRespawn == <<baseVars, sinkVars, sourceVars, taskVars, cfgVars, procVars,
                      storeVars, linesVars, passVars, mergeVars, fanVars,
                      readerVars, wsVars>>

OtherThanWs == <<baseVars, sinkVars, sourceVars, taskVars, cfgVars, procVars,
                 storeVars, linesVars, passVars, mergeVars, fanVars,
                 readerVars, respawnVars>>

auxVars == <<pluginVars, decodeVars, wireVars, pipeVars>>

vars == <<topicVars, engineVars, saveVars, auxVars>>

\* ------------------------------------------------------------------------
\* Helpers
\* ------------------------------------------------------------------------

Range(s) == {s[k] : k \in 1..Len(s)}

\* Position of x in sequence s (0 when absent).
IndexOf(s, x) == IF x \in Range(s) THEN CHOOSE k \in 1..Len(s) : s[k] = x ELSE 0

\* Vec::swap_remove(k): the last element takes the place of element k.
SwapRemove(s, k) ==
    IF k = Len(s) THEN SubSeq(s, 1, Len(s) - 1)
    ELSE [j \in 1..(Len(s) - 1) |-> IF j = k THEN s[Len(s)] ELSE s[j]]

\* mpsc::Sender::is_closed
IsClosed(s) == subState[s] = "closed"

\* A try_send that never reports a full channel.
TrySendUnbounded(s) == IF subState[s] = "closed" THEN "Closed" ELSE "Ok"

\* mpsc::Sender::try_send outcome on the subscriber's channel.
TrySend(s) ==
    IF subState[s] = "closed" THEN "Closed"
    ELSE IF Len(queue[s]) >= buffer[s] THEN "Full"
    ELSE "Ok"

\* Records whose storage.save returned Err: handed to a topic, never saved.
Failed == (1..(nextRec - 1)) \ (Range(saved) \cup Range(stored))

\* ------------------------------------------------------------------------
\* Topic (topic-engine)
\* ------------------------------------------------------------------------

TopicInit ==
    /\ saved = <<>>
    /\ subs = <<>>
    /\ subState = [s \in SubIds |-> "none"]
    /\ overflow = [s \in SubIds |-> "Drop"]
    /\ buffer = [s \in SubIds |-> 1]
    /\ queue = [s \in SubIds |-> <<>>]
    /\ received = [s \in SubIds |-> <<>>]
    /\ savedAtSub = [s \in SubIds |-> {}]
    /\ tasks = {}
    /\ lock = 0
    /\ i = 0
    /\ pc = [p \in Publishers |-> "idle"]
    /\ rec = [p \in Publishers |-> 0]
    /\ result = [p \in Publishers |-> "none"]
    /\ nextRec = 1
    /\ nextSub = 1

\* Topic::subscribe: create the channel, take the write lock, push the
\* Subscriber, return the receiver.
Subscribe(b, o) ==
    /\ nextSub \in SubIds
    /\ lock = 0
    /\ subState' = [subState EXCEPT ![nextSub] = "live"]
    /\ overflow' = [overflow EXCEPT ![nextSub] = o]
    /\ buffer' = [buffer EXCEPT ![nextSub] = b]
    /\ savedAtSub' = [savedAtSub EXCEPT ![nextSub] = Range(saved)]
    /\ subs' = Append(subs, nextSub)
    /\ nextSub' = nextSub + 1
    /\ UNCHANGED <<saved, queue, received, tasks, lock, i, pc, rec, result,
                   nextRec>>
    /\ UNCHANGED <<engineVars, saveVars, auxVars>>

\* A publish that goes on to notify whatever storage.save returned.
AfterSaveIgnoringError(ok) == "lock"

\* Where a publish call goes after storage.save returned `ok`.
AfterSave(ok) == IF ok THEN "lock" ELSE "idle"

\* Topic::publish step 1: storage.save(&[record]), with `?` on its result.
PublishSave(p, ok) ==
    /\ pc[p] = "idle"
    /\ nextRec <= MaxRecords
    /\ rec' = [rec EXCEPT ![p] = nextRec]
    /\ nextRec' = nextRec + 1
    /\ saved' = IF ok THEN Append(saved, nextRec) ELSE saved
    /\ pc' = [pc EXCEPT ![p] = AfterSave(ok)]
    /\ result' = [result EXCEPT ![p] = IF ok THEN "none" ELSE "Err"]
    /\ UNCHANGED <<subs, subState, overflow, buffer, queue, received,
                   savedAtSub, tasks, lock, i, nextSub>>
    /\ UNCHANGED <<engineVars, saveVars, auxVars>>

\* Topic::publish step 2: subscribers.write().await is granted.
PublishLock(p) ==
    /\ pc[p] = "lock"
    /\ lock = 0
    /\ lock' = p
    /\ i' = 1
    /\ pc' = [pc EXCEPT ![p] = "iter"]
    /\ UNCHANGED <<saved, subs, subState, overflow, buffer, queue, received,
                   savedAtSub, tasks, rec, result, nextRec, nextSub>>
    /\ UNCHANGED <<engineVars, saveVars, auxVars>>

\* The Drop arm: try_send, a full channel only logs.
DropArm(p, s) ==
    CASE TrySend(s) = "Ok" ->
            /\ queue' = [queue EXCEPT ![s] = Append(@, rec[p])]
            /\ i' = i + 1
            /\ UNCHANGED <<subs, tasks>>
      [] TrySend(s) = "Full" ->
            /\ i' = i + 1
            /\ UNCHANGED <<subs, tasks, queue>>
      [] OTHER ->
            /\ subs' = SwapRemove(subs, i)
            /\ UNCHANGED <<i, tasks, queue>>

\* A BackPressure arm that awaits tx.send(rec) inside the loop.
BackPressureArmInline(p, s) ==
    /\ Len(queue[s]) < buffer[s]
    /\ queue' = [queue EXCEPT ![s] = Append(@, rec[p])]
    /\ i' = i + 1
    /\ UNCHANGED <<subs, tasks>>

\* The BackPressure arm: tokio::spawn of a task that awaits tx.send(rec).
BackPressureArm(p, s) ==
    /\ tasks' = tasks \cup {[sub |-> s, rec |-> rec[p]]}
    /\ i' = i + 1
    /\ UNCHANGED <<subs, queue>>

\* Topic::publish: one iteration of `while i < subs.len()`.
PublishIter(p) ==
    /\ pc[p] = "iter"
    /\ lock = p
    /\ i <= Len(subs)
    /\ LET s == subs[i] IN
         IF IsClosed(s)
         THEN /\ subs' = SwapRemove(subs, i)
              /\ UNCHANGED <<i, tasks, queue>>
         ELSE IF overflow[s] = "Drop"
              THEN DropArm(p, s)
              ELSE BackPressureArm(p, s)
    /\ UNCHANGED <<saved, subState, overflow, buffer, received, savedAtSub,
                   lock, pc, rec, result, nextRec, nextSub>>
    /\ UNCHANGED <<engineVars, saveVars, auxVars>>

\* Topic::publish: the loop ends, the guard is dropped, Ok(()) is returned.
PublishDone(p) ==
    /\ pc[p] = "iter"
    /\ lock = p
    /\ i > Len(subs)
    /\ lock' = 0
    /\ i' = 0
    /\ pc' = [pc EXCEPT ![p] = "idle"]
    /\ result' = [result EXCEPT ![p] = "Ok"]
    /\ UNCHANGED <<saved, subs, subState, overflow, buffer, queue, received,
                   savedAtSub, tasks, rec, nextRec, nextSub>>
    /\ UNCHANGED <<engineVars, saveVars, auxVars>>

\* A detached task that gives the record up when the channel is full.
SendTaskGivingUp(t) ==
    /\ t \in tasks
    /\ IF subState[t.sub] = "closed" \/ Len(queue[t.sub]) >= buffer[t.sub]
       THEN UNCHANGED queue
       ELSE queue' = [queue EXCEPT ![t.sub] = Append(@, t.rec)]
    /\ tasks' = tasks \ {t}
    /\ UNCHANGED <<saved, subs, subState, overflow, buffer, received,
                   savedAtSub, lock, i, pc, rec, result, nextRec, nextSub>>
    /\ UNCHANGED <<engineVars, saveVars, auxVars>>

\* The detached task of the BackPressure arm: tx.send(rec).await completes,
\* with the record queued, or with an error when the receiver is gone.
SendTask(t) ==
    /\ t \in tasks
    /\ IF subState[t.sub] = "closed"
       THEN UNCHANGED queue
       ELSE /\ Len(queue[t.sub]) < buffer[t.sub]
            /\ queue' = [queue EXCEPT ![t.sub] = Append(@, t.rec)]
    /\ tasks' = tasks \ {t}
    /\ UNCHANGED <<saved, subs, subState, overflow, buffer, received,
                   savedAtSub, lock, i, pc, rec, result, nextRec, nextSub>>
    /\ UNCHANGED <<engineVars, saveVars, auxVars>>

\* MpscSubscription::recv yields the next record.
Recv(s) ==
    /\ subState[s] = "live"
    /\ queue[s] # <<>>
    /\ received' = [received EXCEPT ![s] = Append(@, Head(queue[s]))]
    /\ queue' = [queue EXCEPT ![s] = Tail(@)]
    /\ UNCHANGED <<saved, subs, subState, overflow, buffer, savedAtSub, tasks,
                   lock, i, pc, rec, result, nextRec, nextSub>>
    /\ UNCHANGED <<engineVars, saveVars, auxVars>>

\* The consumer drops its MpscSubscription: the channel closes, and what it
\* held and what it had yielded go with it.
DropRx(s) ==
    /\ subState[s] = "live"
    /\ subState' = [subState EXCEPT ![s] = "closed"]
    /\ queue' = [queue EXCEPT ![s] = <<>>]
    /\ received' = [received EXCEPT ![s] = <<>>]
    /\ savedAtSub' = [savedAtSub EXCEPT ![s] = {}]
    /\ UNCHANGED <<saved, subs, overflow, buffer, tasks, lock, i, pc, rec,
                   result, nextRec, nextSub>>
    /\ UNCHANGED <<engineVars, saveVars, auxVars>>

TopicNext ==
    \/ \E b \in 1..MaxBuffer, o \in Policies : Subscribe(b, o)
    \/ \E p \in Publishers, ok \in BOOLEAN : PublishSave(p, ok)
    \/ \E p \in Publishers : PublishLock(p)
    \/ \E p \in Publishers : PublishIter(p)
    \/ \E p \in Publishers : PublishDone(p)
    \/ \E t \in tasks : SendTask(t)
    \/ \E s \in SubIds : Recv(s)
    \/ \E s \in SubIds : DropRx(s)

\* ------------------------------------------------------------------------
\* Topic (gauss-engine)
\* ------------------------------------------------------------------------

SaveInit ==
    /\ stored = <<>>
    /\ notified = 0
    /\ saveResult = "none"

\* What Topic::save sends on notify_tx after storage.save returned `ok`.
NotifyAfterSave(ok) == IF ok THEN 1 ELSE 0

\* gauss-engine Topic::save: storage.save(record)?, then notify_tx.send(()).
TopicSave(ok) ==
    /\ nextRec <= MaxRecords
    /\ nextRec' = nextRec + 1
    /\ stored' = IF ok THEN Append(stored, nextRec) ELSE stored
    /\ notified' = notified + NotifyAfterSave(ok)
    /\ saveResult' = IF ok THEN "Ok" ELSE "Err"
    /\ UNCHANGED <<saved, subs, subState, overflow, buffer, queue, received,
                   savedAtSub, tasks, lock, i, pc, rec, result, nextSub>>
    /\ UNCHANGED <<engineVars, auxVars>>

\* ------------------------------------------------------------------------
\* TopicRegistry, Engine::bootstrap, Engine::reload (gauss-engine)
\* ------------------------------------------------------------------------

\* Path::extension() is "so"
HasSoExtension(path) == path \in {"p1.so", "p2.so", "q.so"}

\* create_storage: the path must name a .so plugin.
CreateStorageOk(tc) == HasSoExtension(tc.storage)

\* TopicRegistry::register: HashMap::insert under the topic's name.
RegistryInsert(reg, name, topic) == [reg EXCEPT ![name] = topic]

\* TopicRegistry::get
RegistryGet(reg, name) == reg[name]

\* create_storage, init, Topic::new and register for one TopicConfig.
RegisterNew(e, tc) ==
    LET k == e.created[tc.name] + 1
        topic == [inst |-> k, plugin |-> tc.storage, params |-> tc.storage_config]
    IN [e EXCEPT !.created[tc.name] = k,
                 !.registry = RegistryInsert(e.registry, tc.name, topic)]

\* Index of the first topic of cfg with this name (0: none).
FindTopic(cfg, name) ==
    IF \E j \in 1..Len(cfg.topics) : cfg.topics[j].name = name
    THEN CHOOSE j \in 1..Len(cfg.topics) :
            /\ cfg.topics[j].name = name
            /\ \A h \in 1..(j - 1) : cfg.topics[h].name # name
    ELSE 0

\* Index of the first processor of cfg with this name (0: none).
FindProcessor(cfg, name) ==
    IF \E j \in 1..Len(cfg.processors) : cfg.processors[j].name = name
    THEN CHOOSE j \in 1..Len(cfg.processors) :
            /\ cfg.processors[j].name = name
            /\ \A h \in 1..(j - 1) : cfg.processors[h].name # name
    ELSE 0

\* Index of the first slot with this name (0: none).
SlotPosition(slots, name) ==
    IF \E j \in 1..Len(slots) : slots[j].name = name
    THEN CHOOSE j \in 1..Len(slots) :
            /\ slots[j].name = name
            /\ \A h \in 1..(j - 1) : slots[h].name # name
    ELSE 0

\* Vec::remove(k)
RemoveAt(s, k) == SubSeq(s, 1, k - 1) \o SubSeq(s, k + 1, Len(s))

\* spawn_processor: resolve the source topic, create the plugin, spawn the
\* task; the new slot goes to the caller's list.
SpawnProcessor(e, pcfg) ==
    IF RegistryGet(e.registry, pcfg.source) = NoTopic
    THEN [e EXCEPT !.err = "topic_not_found"]
    ELSE IF ~HasSoExtension(pcfg.plugin)
    THEN [e EXCEPT !.err = "create"]
    ELSE LET k == e.spawned[pcfg.name] + 1
             slot == [name |-> pcfg.name, inst |-> k]
         IN [e EXCEPT !.spawned[pcfg.name] = k,
                      !.running = @ \cup {slot},
                      !.newp = Append(@, slot)]

\* Engine::bootstrap, 1: create, init and register every topic.
RECURSIVE BootTopics(_, _, _)
BootTopics(e, cfg, k) ==
    IF k > Len(cfg.topics) THEN e
    ELSE IF ~CreateStorageOk(cfg.topics[k]) THEN [e EXCEPT !.err = "create"]
    ELSE BootTopics(RegisterNew(e, cfg.topics[k]), cfg, k + 1)

\* Engine::bootstrap, 2: spawn every processor.
RECURSIVE BootProcessors(_, _, _)
BootProcessors(e, cfg, k) ==
    IF k > Len(cfg.processors) THEN e
    ELSE LET e1 == SpawnProcessor(e, cfg.processors[k]) IN
         IF e1.err # "Ok" THEN e1 ELSE BootProcessors(e1, cfg, k + 1)

\* Nothing constructed yet.
NoEngine ==
    [registry |-> [n \in TopicNames |-> NoTopic],
     created |-> [n \in TopicNames |-> 0],
     processors |-> <<>>,
     running |-> {},
     spawned |-> [n \in {"P"} |-> 0],
     config |-> EmptyConfig,
     kept |-> <<>>,
     newp |-> <<>>,
     reconfigured |-> {},
     err |-> "Ok"]

\* Engine::bootstrap
Bootstrap(cfg) ==
    LET e1 == BootTopics(NoEngine, cfg, 1) IN
    IF e1.err # "Ok" THEN e1
    ELSE LET e2 == BootProcessors(e1, cfg, 1) IN
         IF e2.err # "Ok" THEN e2
         ELSE [e2 EXCEPT !.processors = e2.newp, !.newp = <<>>, !.config = cfg]

\* A reload that never looks for deleted topics.
NoDeletedTopicCheck(old, new) == FALSE

\* Engine::reload: some topic of the live config is missing from the new one.
DeletedTopic(old, new) ==
    \E j \in 1..Len(old.topics) :
        ~\E k \in 1..Len(new.topics) : new.topics[k].name = old.topics[j].name

\* Engine::reload: topics of the new config that the old config does not
\* have are created, initialised and registered.
RECURSIVE AddNewTopics(_, _, _, _)
AddNewTopics(e, old, new, k) ==
    IF k > Len(new.topics) THEN e
    ELSE IF \E j \in 1..Len(old.topics) : old.topics[j].name = new.topics[k].name
    THEN AddNewTopics(e, old, new, k + 1)
    ELSE IF ~CreateStorageOk(new.topics[k]) THEN [e EXCEPT !.err = "create"]
    ELSE AddNewTopics(RegisterNew(e, new.topics[k]), old, new, k + 1)

\* A check that lets every parameter change.
AnyChangeAllowed(oldValues, newValues) == TRUE

\* check_sighup_changes: no postmaster parameter differs.
CheckSighupChanges(oldValues, newValues) == oldValues.pm = newValues.pm

\* TopicStorage::reconfigure: the trait's default rejects; a storage that
\* supports it takes the new sighup parameter.
ReconfigureOk(path) == path = "p1.so"

\* Engine::reload: existing topics whose storage_config changed.
RECURSIVE ReconfigureTopics(_, _, _, _)
ReconfigureTopics(e, old, new, k) ==
    IF k > Len(new.topics) THEN e
    ELSE LET nt == new.topics[k]
             j == FindTopic(old, nt.name)
         IN
         IF j = 0 THEN ReconfigureTopics(e, old, new, k + 1)
         ELSE IF old.topics[j].storage_config = nt.storage_config
         THEN ReconfigureTopics(e, old, new, k + 1)
         ELSE IF old.topics[j].storage # nt.storage
         THEN [e EXCEPT !.err = "path_changed"]
         ELSE IF ~CheckSighupChanges(old.topics[j].storage_config, nt.storage_config)
         THEN [e EXCEPT !.err = "requires_restart"]
         ELSE IF RegistryGet(e.registry, nt.name) = NoTopic
         THEN [e EXCEPT !.err = "topic_not_found"]
         ELSE IF ~ReconfigureOk(RegistryGet(e.registry, nt.name).plugin)
         THEN [e EXCEPT !.err = "reconfigure",
                        !.reconfigured = @ \cup {[topic |-> nt.name,
                                                  values |-> nt.storage_config]}]
         ELSE ReconfigureTopics(
                 [e EXCEPT !.registry[nt.name].params.sh = nt.storage_config.sh,
                           !.reconfigured = @ \cup {[topic |-> nt.name,
                                                     values |-> nt.storage_config]}],
                 old, new, k + 1)

\* A comparison that looks at the plugin path only.
PluginChanged(old, new) == old.plugin # new.plugin

\* processor_config_changed
ProcessorConfigChanged(old, new) ==
    old.plugin # new.plugin \/ old.source # new.source

\* Engine::reload: drain self.processors; slots whose processor is gone from
\* the new config are signalled and joined, the others are kept.
StopDeleted(e, new) ==
    LET stays(slot) == \E k \in 1..Len(new.processors) :
                            new.processors[k].name = slot.name
        gone == {slot \in Range(e.processors) : ~stays(slot)}
    IN [e EXCEPT !.kept = SelectSeq(e.processors, stays),
                 !.processors = <<>>,
                 !.running = @ \ gone]

\* Engine::reload: for each processor of the new config, respawn it when it
\* is new or changed, keep its slot otherwise.
RECURSIVE ApplyProcessors(_, _, _, _)
ApplyProcessors(e, old, new, k) ==
    IF k > Len(new.processors) THEN e
    ELSE LET pcfg == new.processors[k]
             j == FindProcessor(old, pcfg.name)
             changed == IF j = 0 THEN TRUE
                        ELSE ProcessorConfigChanged(old.processors[j], pcfg)
             at == SlotPosition(e.kept, pcfg.name)
         IN
         IF changed
         THEN LET e1 == IF at # 0
                        THEN [e EXCEPT !.kept = RemoveAt(@, at),
                                       !.running = @ \ {e.kept[at]}]
                        ELSE e
                  e2 == SpawnProcessor(e1, pcfg)
              IN IF e2.err # "Ok" THEN e2
                 ELSE ApplyProcessors(e2, old, new, k + 1)
         ELSE IF at # 0
         THEN ApplyProcessors([e EXCEPT !.newp = Append(@, e.kept[at]),
                                        !.kept = RemoveAt(@, at)],
                              old, new, k + 1)
         ELSE ApplyProcessors(e, old, new, k + 1)

\* The slots a returning reload drops lose their shutdown sender: their
\* tasks see the channel close and stop.
DropSlots(e) ==
    [e EXCEPT !.running = @ \ (Range(e.kept) \cup Range(e.newp)),
              !.kept = <<>>, !.newp = <<>>]

\* Engine::reload, from the live engine e to the engine it leaves, with the
\* error it returns in err.
ReloadResult(e, new) ==
    IF DeletedTopic(e.config, new) THEN [e EXCEPT !.err = "deleted"]
    ELSE LET e1 == AddNewTopics(e, e.config, new, 1) IN
    IF e1.err # "Ok" THEN e1
    ELSE LET e2 == ReconfigureTopics(e1, e.config, new, 1) IN
    IF e2.err # "Ok" THEN e2
    ELSE LET e3 == ApplyProcessors(StopDeleted(e2, new), e.config, new, 1) IN
    IF e3.err # "Ok" THEN DropSlots(e3)
    ELSE DropSlots([e3 EXCEPT !.processors = e3.newp, !.newp = <<>>,
                              !.config = new])

\* The live engine as a record.
Engine ==
    [registry |-> registry, created |-> created, processors |-> processors,
     running |-> running, spawned |-> spawned, config |-> config,
     kept |-> <<>>, newp |-> <<>>, reconfigured |-> {}, err |-> "Ok"]

\* The variables take the engine e.
EngineBecomes(e) ==
    /\ registry' = e.registry
    /\ created' = e.created
    /\ processors' = e.processors
    /\ running' = e.running
    /\ spawned' = e.spawned
    /\ config' = e.config

\* Engine::reload(new_config)
Reload(cfg) ==
    /\ reloads < MaxReloads
    /\ reloads' = reloads + 1
    /\ EngineBecomes(ReloadResult(Engine, cfg))
    /\ lastReload' = ReloadResult(Engine, cfg).err
    /\ reloadTopics' = cfg.topics
    /\ reconfigured' = ReloadResult(Engine, cfg).reconfigured
    /\ UNCHANGED <<topicVars, saveVars, auxVars>>

\* A caller of TopicRegistry::register with a new Topic for this name.
Register(tc) ==
    /\ created[tc.name] < MaxRegistrations
    /\ registry' = RegisterNew(Engine, tc).registry
    /\ created' = RegisterNew(Engine, tc).created
    /\ UNCHANGED <<processors, running, spawned, config, reloads, lastReload,
                   reloadTopics, reconfigured>>
    /\ UNCHANGED <<topicVars, saveVars, auxVars>>

\* No engine: an empty registry.
EngineIdle ==
    /\ registry = NoEngine.registry
    /\ created = NoEngine.created
    /\ processors = <<>>
    /\ running = {}
    /\ spawned = NoEngine.spawned
    /\ config = EmptyConfig
    /\ reloads = 0
    /\ lastReload = "none"
    /\ reloadTopics = <<>>
    /\ reconfigured = {}

\* The engine a successful Engine::bootstrap returns.
EngineInit ==
    \E cfg \in Configs :
        /\ Bootstrap(cfg).err = "Ok"
        /\ registry = Bootstrap(cfg).registry
        /\ created = Bootstrap(cfg).created
        /\ processors = Bootstrap(cfg).processors
        /\ running = Bootstrap(cfg).running
        /\ spawned = Bootstrap(cfg).spawned
        /\ config = cfg
        /\ reloads = 0
        /\ lastReload = "none"
        /\ reloadTopics = <<>>
        /\ reconfigured = {}
    /\ reconfigured = {}

\* ------------------------------------------------------------------------
\* Plugin loading (plugin-host: load_plugin and the plugin wrappers;
\* gauss-engine: PluginLib::load, load_storage / load_processor)
\* ------------------------------------------------------------------------

Hosts == {"plugin-host", "gauss-engine"}

\* Symbols a plugin file may export.
Symbols == {"qs_abi_version", "qs_config_params", "create", "destroy"}

\* Plugin files: the ABI version the file reports, the symbols it exports,
\* what its create function returns, and whether the config subtree decodes
\* against its declared parameters.
Plugins ==
    [abi : {QS_ABI_VERSION, SERVER_QS_ABI_VERSION},
     exports : SUBSET Symbols,
     create : {"object", "error", "null"},
     config_ok : BOOLEAN]

\* The host's own QS_ABI_VERSION.
HostAbi(h) == IF h = "plugin-host" THEN SERVER_QS_ABI_VERSION ELSE QS_ABI_VERSION

\* A host that takes every version.
AbiIgnored(h, version) == TRUE

\* plugin_version != QS_ABI_VERSION is false
AbiMatches(h, version) == version = HostAbi(h)

\* A wrapper that releases the library before the object.
LibraryFirst == <<"lib", "inner">>

\* Drop of a plugin wrapper: Drop::drop takes inner, then the fields are
\* dropped and _lib is released.
DropOrder == <<"inner", "lib">>

PluginInit ==
    /\ host \in Hosts
    /\ plugin \in Plugins
    /\ loadPc = "start"
    /\ libRefs = 0
    /\ object = "none"
    /\ abiCalled = FALSE
    /\ createResolved = FALSE
    /\ createInvoked = FALSE
    /\ probing = FALSE

\* No plugin is being loaded.
PluginIdle ==
    /\ host = "gauss-engine"
    /\ plugin = [abi |-> QS_ABI_VERSION, exports |-> Symbols,
                 create |-> "object", config_ok |-> TRUE]
    /\ loadPc = "start"
    /\ libRefs = 0
    /\ object = "none"
    /\ abiCalled = FALSE
    /\ createResolved = FALSE
    /\ createInvoked = FALSE
    /\ probing = FALSE

PluginFrame == UNCHANGED <<topicVars, engineVars, saveVars, decodeVars, wireVars, pipeVars,
                           host, plugin, probing>>

\* Library::new(path)
LoadLibrary ==
    /\ loadPc = "start"
    /\ loadPc' = "opened"
    /\ libRefs' = libRefs + 1
    /\ UNCHANGED <<object, abiCalled, createResolved, createInvoked>>
    /\ PluginFrame

\* The ABI check: look up qs_abi_version, call it, compare with the host's
\* constant; an early return drops the library.
CheckAbi ==
    /\ loadPc = "opened"
    /\ IF "qs_abi_version" \notin plugin.exports
       THEN /\ loadPc' = "failed"
            /\ libRefs' = libRefs - 1
            /\ abiCalled' = abiCalled
       ELSE /\ abiCalled' = TRUE
            /\ IF AbiMatches(host, plugin.abi)
               THEN loadPc' = "abi_ok" /\ libRefs' = libRefs
               ELSE loadPc' = "failed" /\ libRefs' = libRefs - 1
    /\ UNCHANGED <<object, createResolved, createInvoked>>
    /\ PluginFrame

\* The symbols the host looks up after the ABI check, in its order.
SymbolsResolved(h) ==
    IF h = "plugin-host" THEN <<"create">>
    ELSE <<"qs_config_params", "create", "destroy">>

\* lib.get(..) for each symbol in turn; the first missing one fails the load.
ResolveSymbols ==
    /\ loadPc = "abi_ok"
    /\ LET syms == SymbolsResolved(host)
           missing == {k \in 1..Len(syms) : syms[k] \notin plugin.exports}
           reached(k) == \A m \in missing : k < m
       IN /\ createResolved' = \E k \in 1..Len(syms) :
                                   syms[k] = "create" /\ reached(k)
          /\ IF missing = {}
             THEN loadPc' = "resolved" /\ libRefs' = libRefs
             ELSE loadPc' = "failed" /\ libRefs' = libRefs - 1
    /\ UNCHANGED <<object, abiCalled, createInvoked>>
    /\ PluginFrame

\* gauss-engine load_storage / load_processor: config_params, then
\* parse_toml_config and validate_and_build, whose error drops the library.
PrepareConfig ==
    /\ loadPc = "resolved"
    /\ host = "gauss-engine"
    /\ IF plugin.config_ok
       THEN loadPc' = "configured" /\ libRefs' = libRefs
       ELSE loadPc' = "failed" /\ libRefs' = libRefs - 1
    /\ UNCHANGED <<object, abiCalled, createResolved, createInvoked>>
    /\ PluginFrame

\* The create function is called.  With an object the handle is built (the
\* gauss-engine host forgets the PluginLib, whose library reference is never
\* released); with an error or a null pointer the library is dropped.
InvokeCreate ==
    /\ \/ loadPc = "resolved" /\ host = "plugin-host"
       \/ loadPc = "configured" /\ host = "gauss-engine"
    /\ createInvoked' = TRUE
    /\ IF plugin.create = "object"
       THEN loadPc' = "loaded" /\ object' = "alive" /\ libRefs' = libRefs
       ELSE loadPc' = "failed" /\ object' = object /\ libRefs' = libRefs - 1
    /\ UNCHANGED <<abiCalled, createResolved>>
    /\ PluginFrame

\* One part of the drop of a plugin-host wrapper.
DropPart(part) ==
    IF part = "inner"
    THEN object' = "destroyed" /\ libRefs' = libRefs
    ELSE object' = object /\ libRefs' = libRefs - 1

\* The wrapper is dropped: the first part of its drop.
DropHandle ==
    /\ loadPc = "loaded"
    /\ host = "plugin-host"
    /\ loadPc' = "dropping"
    /\ DropPart(DropOrder[1])
    /\ UNCHANGED <<abiCalled, createResolved, createInvoked>>
    /\ PluginFrame

\* The second part of the drop of the wrapper.
DropHandleEnd ==
    /\ loadPc = "dropping"
    /\ loadPc' = "dropped"
    /\ DropPart(DropOrder[2])
    /\ UNCHANGED <<abiCalled, createResolved, createInvoked>>
    /\ PluginFrame

\* gauss-engine: the Box<dyn Trait> is dropped; the library was forgotten.
DropObject ==
    /\ loadPc = "loaded"
    /\ host = "gauss-engine"
    /\ loadPc' = "dropped"
    /\ object' = "destroyed"
    /\ UNCHANGED <<libRefs, abiCalled, createResolved, createInvoked>>
    /\ PluginFrame

\* Engine::reload loads a PluginLib of the same file to read its parameters.
ProbeOpen ==
    /\ host = "gauss-engine"
    /\ loadPc = "loaded"
    /\ ~probing
    /\ probing' = TRUE
    /\ libRefs' = libRefs + 1
    /\ UNCHANGED <<topicVars, engineVars, saveVars, decodeVars, wireVars, pipeVars, host,
                   plugin, loadPc, object, abiCalled, createResolved,
                   createInvoked>>

\* That PluginLib goes out of scope at the end of the loop iteration.
ProbeClose ==
    /\ probing
    /\ probing' = FALSE
    /\ libRefs' = libRefs - 1
    /\ UNCHANGED <<topicVars, engineVars, saveVars, decodeVars, wireVars, pipeVars, host,
                   plugin, loadPc, object, abiCalled, createResolved,
                   createInvoked>>

PluginNext ==
    \/ LoadLibrary
    \/ CheckAbi
    \/ ResolveSymbols
    \/ PrepareConfig
    \/ InvokeCreate
    \/ DropHandle
    \/ DropHandleEnd
    \/ DropObject
    \/ ProbeOpen
    \/ ProbeClose

\* ------------------------------------------------------------------------
\* Config decoding (gauss-engine: parse_toml_config, validate_and_build)
\* ------------------------------------------------------------------------

\* Keys a config subtree may hold; "z" is declared by no plugin.
Keys == {"a", "b", "z"}

\* No value under a key, no default of a parameter.
NoValue == [t |-> "absent", n |-> 0, s |-> ""]

\* toml::Value: a boolean, two integers, a float, a string.
TomlValues ==
    {[t |-> "Boolean", n |-> 0, s |-> "true"],
     [t |-> "Integer", n |-> 1, s |-> ""],
     [t |-> "Integer", n |-> -1, s |-> ""],
     [t |-> "Float", n |-> 0, s |-> "0.5"],
     [t |-> "String", n |-> 0, s |-> "x"]}

\* The config subtree of a topic or processor: missing, not a table, or a
\* table.
Subtrees ==
    [kind : {"none", "scalar"}, entries : {[k \in Keys |-> NoValue]}]
    \cup [kind : {"table"}, entries : [Keys -> TomlValues \cup {NoValue}]]

\* ParamType
ParamTypes == {"Bool", "I64", "U64", "F64", "Str"}

\* The default a plugin declares for a parameter of this type.
DefaultOf(type) ==
    CASE type = "Bool" -> [t |-> "Bool", n |-> 0, s |-> "false"]
      [] type = "I64" -> [t |-> "I64", n |-> 0, s |-> ""]
      [] type = "U64" -> [t |-> "U64", n |-> 0, s |-> ""]
      [] type = "F64" -> [t |-> "F64", n |-> 0, s |-> "0"]
      [] type = "Str" -> [t |-> "Str", n |-> 0, s |-> "d"]

\* ConfigParam
ParamsNamed(name) ==
    {[name |-> name, param_type |-> type, default |-> d, required |-> r] :
        type \in ParamTypes, r \in BOOLEAN, d \in {"no", "yes"}}

\* The default of a declared parameter (NoValue: none).
Default(param) ==
    IF param.default = "yes" THEN DefaultOf(param.param_type) ELSE NoValue

\* The parameter lists qs_config_params() may return.
DeclaredLists ==
    {<<>>} \cup {<<pa>> : pa \in ParamsNamed("a")}
           \cup {<<pb>> : pb \in ParamsNamed("b")}
           \cup {<<pa, pb>> : pa \in ParamsNamed("a"), pb \in ParamsNamed("b")}

\* flatten_toml_value: scalars are written without quoting.
FlattenTomlValue(v) ==
    CASE v.t = "String" -> v.s
      [] v.t = "Integer" -> ToString(v.n)
      [] v.t = "Float" -> v.s
      [] v.t = "Boolean" -> v.s

\* toml_to_param_value: the value as the declared type, or an error.
TomlToParamValue(v, param) ==
    CASE param.param_type = "Bool" ->
            IF v.t = "Boolean"
            THEN [ok |-> TRUE, value |-> [t |-> "Bool", n |-> 0, s |-> v.s]]
            ELSE [ok |-> FALSE, value |-> NoValue]
      [] param.param_type = "I64" ->
            IF v.t = "Integer"
            THEN [ok |-> TRUE, value |-> [t |-> "I64", n |-> v.n, s |-> ""]]
            ELSE [ok |-> FALSE, value |-> NoValue]
      [] param.param_type = "U64" ->
            IF v.t = "Integer" /\ ~(v.n < 0)
            THEN [ok |-> TRUE, value |-> [t |-> "U64", n |-> v.n, s |-> ""]]
            ELSE [ok |-> FALSE, value |-> NoValue]
      [] param.param_type = "F64" ->
            IF v.t = "Float"
            THEN [ok |-> TRUE, value |-> [t |-> "F64", n |-> 0, s |-> v.s]]
            ELSE [ok |-> FALSE, value |-> NoValue]
      [] param.param_type = "Str" ->
            [ok |-> TRUE,
             value |-> [t |-> "Str", n |-> 0, s |-> FlattenTomlValue(v)]]

\* The declared parameter of this name.
ParamNamed(params, key) ==
    params[CHOOSE k \in 1..Len(params) : params[k].name = key]

IsDeclared(params, key) == \E k \in 1..Len(params) : params[k].name = key

\* parse_toml_config: the keys present in the source, as declared types.
ParseTomlConfig(sub, params) ==
    IF sub.kind = "none"
    THEN [ok |-> TRUE, values |-> [k \in Keys |-> NoValue]]
    ELSE IF sub.kind # "table"
    THEN [ok |-> FALSE, values |-> [k \in Keys |-> NoValue]]
    ELSE IF \E key \in Keys : sub.entries[key] # NoValue /\ ~IsDeclared(params, key)
    THEN [ok |-> FALSE, values |-> [k \in Keys |-> NoValue]]
    ELSE IF \E k \in 1..Len(params) :
               /\ sub.entries[params[k].name] # NoValue
               /\ ~TomlToParamValue(sub.entries[params[k].name], params[k]).ok
    THEN [ok |-> FALSE, values |-> [k \in Keys |-> NoValue]]
    ELSE [ok |-> TRUE,
          values |-> [key \in Keys |->
                        IF IsDeclared(params, key) /\ sub.entries[key] # NoValue
                        THEN TomlToParamValue(sub.entries[key],
                                              ParamNamed(params, key)).value
                        ELSE NoValue]]

\* A validate_and_build that fills in no default.
ValidateWithoutDefaults(parsed, params) ==
    IF \E k \in 1..Len(params) :
          parsed[params[k].name] = NoValue /\ params[k].required
    THEN [ok |-> FALSE, values |-> [k \in Keys |-> NoValue]]
    ELSE [ok |-> TRUE,
          values |-> [key \in Keys |-> IF IsDeclared(params, key)
                                       THEN parsed[key] ELSE NoValue]]

\* validate_and_build: the parsed value, else the default, else an error for
\* a required parameter.
ValidateAndBuild(parsed, params) ==
    IF \E k \in 1..Len(params) :
          /\ parsed[params[k].name] = NoValue
          /\ Default(params[k]) = NoValue
          /\ params[k].required
    THEN [ok |-> FALSE, values |-> [k \in Keys |-> NoValue]]
    ELSE [ok |-> TRUE,
          values |-> [key \in Keys |->
                        IF ~IsDeclared(params, key) THEN NoValue
                        ELSE IF parsed[key] # NoValue THEN parsed[key]
                        ELSE Default(ParamNamed(params, key))]]

DecodeInit ==
    /\ declared \in DeclaredLists
    /\ subtree \in Subtrees
    /\ decoded = [done |-> FALSE, ok |-> FALSE, values |-> [k \in Keys |-> NoValue]]

\* Nothing is being decoded.
DecodeIdle ==
    /\ declared = <<>>
    /\ subtree = [kind |-> "none", entries |-> [k \in Keys |-> NoValue]]
    /\ decoded = [done |-> FALSE, ok |-> FALSE, values |-> [k \in Keys |-> NoValue]]

\* parse_toml_config(subtree, params)?, then validate_and_build(raw, params)?
DecodeConfig ==
    /\ ~decoded.done
    /\ LET raw == ParseTomlConfig(subtree, declared) IN
         decoded' = IF ~raw.ok
                    THEN [done |-> TRUE, ok |-> FALSE, values |-> raw.values]
                    ELSE [done |-> TRUE,
                          ok |-> ValidateAndBuild(raw.values, declared).ok,
                          values |-> ValidateAndBuild(raw.values, declared).values]
    /\ UNCHANGED <<declared, subtree>>
    /\ UNCHANGED <<topicVars, engineVars, saveVars, pluginVars, wireVars, pipeVars>>

DecodeNext == DecodeConfig

\* ------------------------------------------------------------------------
\* Endpoint wire chain (pipeline: decode_frame, encode_to_wire)
\* ------------------------------------------------------------------------

\* Byte values of the payloads.
ByteValues == {0, 1}

\* Middlewares whose decode undoes their encode: "shift" adds one to every
\* byte, "reverse" reverses the bytes, "frame" puts a marker byte in front
\* and, decoding, fails without it.
Middlewares == {"shift", "reverse", "frame"}

\* Sequences over S of length at most n.
SeqsUpTo(S, n) == UNION {[1..m -> S] : m \in 0..n}

Reverse(d) == [k \in 1..Len(d) |-> d[Len(d) + 1 - k]]

\* Middleware::encode
MwEncode(mw, d) ==
    CASE mw = "shift" -> [state |-> "ok", bytes |-> [k \in 1..Len(d) |-> d[k] + 1]]
      [] mw = "reverse" -> [state |-> "ok", bytes |-> Reverse(d)]
      [] mw = "frame" -> [state |-> "ok", bytes |-> <<0>> \o d]

\* Middleware::decode
MwDecode(mw, d) ==
    CASE mw = "shift" ->
            IF \E k \in 1..Len(d) : d[k] = 0
            THEN [state |-> "err", bytes |-> <<>>]
            ELSE [state |-> "ok", bytes |-> [k \in 1..Len(d) |-> d[k] - 1]]
      [] mw = "reverse" -> [state |-> "ok", bytes |-> Reverse(d)]
      [] mw = "frame" ->
            IF Len(d) = 0 \/ d[1] # 0
            THEN [state |-> "err", bytes |-> <<>>]
            ELSE [state |-> "ok", bytes |-> SubSeq(d, 2, Len(d))]

\* middleware.iter().try_fold(frame, |d, mw| mw.decode(d)), from index k on.
RECURSIVE DecodeFrom(_, _, _)
DecodeFrom(mws, k, r) ==
    IF r.state # "ok" \/ k > Len(mws) THEN r
    ELSE DecodeFrom(mws, k + 1, MwDecode(mws[k], r.bytes))

\* middleware.iter().try_fold(data, |d, mw| mw.encode(d)), from index k on.
RECURSIVE EncodeFrom(_, _, _)
EncodeFrom(mws, k, r) ==
    IF r.state # "ok" \/ k > Len(mws) THEN r
    ELSE EncodeFrom(mws, k + 1, MwEncode(mws[k], r.bytes))

\* An encode chain that folds the list in forward order.
EncodeChainForward(mws, data) == EncodeFrom(mws, 1, [state |-> "ok", bytes |-> data])

\* encode_to_wire: middleware.iter().rev().try_fold(data, ..encode..)
EncodeChain(mws, data) ==
    EncodeFrom(Reverse(mws), 1, [state |-> "ok", bytes |-> data])

\* decode_frame: middleware.iter().try_fold(frame, ..decode..)
DecodeChain(mws, frame) == DecodeFrom(mws, 1, [state |-> "ok", bytes |-> frame])

NoBytes == [state |-> "none", bytes |-> <<>>]

WireInit ==
    /\ chain \in SeqsUpTo(Middlewares, MaxChain)
    /\ payload \in SeqsUpTo(ByteValues, MaxPayload)
    /\ encoded = NoBytes
    /\ frameOut = NoBytes

\* No endpoint.
WireIdle ==
    /\ chain = <<>>
    /\ payload = <<>>
    /\ encoded = NoBytes
    /\ frameOut = NoBytes

\* encode_to_wire: the codec's bytes through the middleware chain.
EncodeToWire ==
    /\ encoded = NoBytes
    /\ encoded' = EncodeChain(chain, payload)
    /\ UNCHANGED <<chain, payload, frameOut>>
    /\ UNCHANGED <<topicVars, engineVars, saveVars, pluginVars, decodeVars, pipeVars>>

\* decode_frame: the received bytes through the middleware chain.
DecodeFrame ==
    /\ encoded.state = "ok"
    /\ frameOut = NoBytes
    /\ frameOut' = DecodeChain(chain, encoded.bytes)
    /\ UNCHANGED <<chain, payload, encoded>>
    /\ UNCHANGED <<topicVars, engineVars, saveVars, pluginVars, decodeVars, pipeVars>>

WireNext == EncodeToWire \/ DecodeFrame

\* ------------------------------------------------------------------------
\* Lines framing (plugins/framing/lines)
\* ------------------------------------------------------------------------

\* LinesFraming::encode: the data, then a newline.
LinesEncode(data) == data \o <<NL>>

\* LinesFraming::decode: nothing without a newline (a format error when the
\* buffer is longer than max_length), else the line before the first
\* newline without its trailing '\r' (a format error when it is longer than
\* max_length) and the bytes consumed.
LinesDecode(max, buf) ==
    LET newlines == {k \in 1..Len(buf) : buf[k] = NL} IN
      IF newlines = {}
      THEN IF max > 0 /\ Len(buf) > max
           THEN [state |-> "format", frame |-> <<>>, consumed |-> 0]
           ELSE [state |-> "none", frame |-> <<>>, consumed |-> 0]
      ELSE LET first == CHOOSE k \in newlines : \A m \in newlines : k <= m
               upto == SubSeq(buf, 1, first - 1)
               line == IF Len(upto) > 0 /\ upto[Len(upto)] = CR
                       THEN SubSeq(upto, 1, Len(upto) - 1)
                       ELSE upto
           IN IF max > 0 /\ Len(line) > max
              THEN [state |-> "format", frame |-> <<>>, consumed |-> 0]
              ELSE [state |-> "frame", frame |-> line, consumed |-> first]

\* ------------------------------------------------------------------------
\* Pipeline sink connection (pipeline: handle_sink_connection)
\* ------------------------------------------------------------------------

\* DataFormat
Formats == {"Json", "Csv"}

\* RecordData of the records a sink is given.
SinkRecords == [format : Formats, bytes : {<<0>>, <<1, 0>>}]

\* Codec::encode of the format codecs: the bytes of data in the codec's own
\* format, a format error for any other.
CodecEncode(format, data) ==
    IF data.format = format
    THEN [state |-> "ok", bytes |-> data.bytes]
    ELSE [state |-> "format", bytes |-> <<>>]

\* encode_to_wire: codec.encode, the middleware in reverse order, then
\* framing.encode into the buffer.
EncodeRecordToWire(record) ==
    LET data == CodecEncode(sinkCodec, record) IN
      IF data.state # "ok" THEN data
      ELSE LET wrapped == EncodeChain(sinkMw, data.bytes) IN
             IF wrapped.state # "ok" THEN wrapped
             ELSE [state |-> "ok", bytes |-> LinesEncode(wrapped.bytes)]

SinkInit ==
    /\ sinkCodec \in Formats
    /\ sinkMw \in SeqsUpTo(Middlewares, 1)
    /\ sinkRx \in SeqsUpTo(SinkRecords, MaxSinkRecords)
    /\ sinkConn = "open"
    /\ written = <<>>
    /\ encodeCalls = <<>>
    /\ sinkLog = <<>>

\* No sink connection.
SinkIdle ==
    /\ sinkCodec = "Json"
    /\ sinkMw = <<>>
    /\ sinkRx = <<>>
    /\ sinkConn = "closed"
    /\ written = <<>>
    /\ encodeCalls = <<>>
    /\ sinkLog = <<>>

\* One turn of the loop with a record received: encode_to_wire, where a
\* format error skips the record and any other error ends the connection,
\* then write_all, whose error ends the connection.
SinkSend(writeOk) ==
    /\ sinkConn = "open"
    /\ sinkRx # <<>>
    /\ LET record == Head(sinkRx)
           wire == EncodeRecordToWire(record)
       IN /\ sinkRx' = Tail(sinkRx)
          /\ encodeCalls' = Append(encodeCalls, record)
          /\ IF wire.state = "format"
             THEN /\ sinkLog' = Append(sinkLog, "bad record, skipping")
                  /\ UNCHANGED <<written, sinkConn>>
             ELSE IF wire.state # "ok"
             THEN /\ sinkLog' = Append(sinkLog, "encode error, disconnecting")
                  /\ sinkConn' = "closed"
                  /\ UNCHANGED written
             ELSE IF writeOk
             THEN /\ written' = Append(written, wire.bytes)
                  /\ UNCHANGED <<sinkConn, sinkLog>>
             ELSE /\ sinkLog' = Append(sinkLog, "write error")
                  /\ sinkConn' = "closed"
                  /\ UNCHANGED written
    /\ UNCHANGED <<sinkCodec, sinkMw>>
    /\ UNCHANGED OtherThanSink

\* RecvError::Lagged: the receiver fell behind and a record was skipped.
SinkLagged ==
    /\ sinkConn = "open"
    /\ sinkRx # <<>>
    /\ sinkRx' = Tail(sinkRx)
    /\ sinkLog' = Append(sinkLog, "lagged, skipped messages")
    /\ UNCHANGED <<sinkCodec, sinkMw, sinkConn, written, encodeCalls>>
    /\ UNCHANGED OtherThanSink

\* RecvError::Closed: the broadcast sender is gone.
SinkRxClosed ==
    /\ sinkConn = "open"
    /\ sinkRx = <<>>
    /\ sinkConn' = "closed"
    /\ UNCHANGED <<sinkCodec, sinkMw, sinkRx, written, encodeCalls, sinkLog>>
    /\ UNCHANGED OtherThanSink

SinkNext ==
    \/ \E writeOk \in BOOLEAN : SinkSend(writeOk)
    \/ SinkLagged
    \/ SinkRxClosed

\* ------------------------------------------------------------------------
\* Pipeline source connection (pipeline: handle_source_connection)
\* ------------------------------------------------------------------------

\* ErrorKind of the errors a plugin may return: format, or any other.
ErrorKinds == {"Format", "Io"}

\* What decode_frame returns for a frame: a record, or the error of a
\* middleware or of the codec.
DecodeOutcomes == {"Ok"} \cup ErrorKinds

\* No error raised.
NoError == [stage |-> "none", kind |-> "none"]

SourceInit ==
    /\ maxLength \in {0, 1}
    /\ srcIn \in SeqsUpTo({0, NL}, MaxWire)
    /\ srcBuf = <<>>
    /\ srcPhase = "decode"
    /\ srcConn = "open"
    /\ srcSent = <<>>
    /\ srcLog = <<>>
    /\ srcError = NoError

\* No source connection.
SourceIdle ==
    /\ maxLength = 0
    /\ srcIn = <<>>
    /\ srcBuf = <<>>
    /\ srcPhase = "decode"
    /\ srcConn = "closed"
    /\ srcSent = <<>>
    /\ srcLog = <<>>
    /\ srcError = NoError

\* One turn of the inner loop: framing.decode(&buf); with a frame, the
\* bytes are drained and decode_frame is called; its record is sent to the
\* source task (a closed channel ends the worker), its format error is
\* logged, any other error ends the worker.  Without a frame the worker
\* goes on to read; an error of the framing ends the worker.
SourceDecode(outcome, channelOpen) ==
    /\ srcConn = "open"
    /\ srcPhase = "decode"
    /\ LET framed == LinesDecode(maxLength, srcBuf) IN
         CASE framed.state = "frame" ->
                /\ srcBuf' = SubSeq(srcBuf, framed.consumed + 1, Len(srcBuf))
                /\ UNCHANGED srcPhase
                /\ CASE outcome = "Ok" ->
                          /\ srcError' = NoError
                          /\ IF channelOpen
                             THEN /\ srcSent' = Append(srcSent, framed.frame)
                                  /\ UNCHANGED srcConn
                             ELSE /\ srcConn' = "closed"
                                  /\ UNCHANGED srcSent
                          /\ UNCHANGED srcLog
                     [] outcome = "Format" ->
                          /\ srcError' = [stage |-> "decode_frame", kind |-> outcome]
                          /\ srcLog' = Append(srcLog, "bad record, skipping")
                          /\ UNCHANGED <<srcConn, srcSent>>
                     [] OTHER ->
                          /\ srcError' = [stage |-> "decode_frame", kind |-> outcome]
                          /\ srcLog' = Append(srcLog, "decode error, disconnecting")
                          /\ srcConn' = "closed"
                          /\ UNCHANGED srcSent
           [] framed.state = "none" ->
                /\ srcPhase' = "read"
                /\ srcError' = NoError
                /\ UNCHANGED <<srcBuf, srcConn, srcSent, srcLog>>
           [] OTHER ->
                /\ srcError' = [stage |-> "framing", kind |-> "Format"]
                /\ srcLog' = Append(srcLog, "framing error")
                /\ srcConn' = "closed"
                /\ UNCHANGED <<srcBuf, srcPhase, srcSent>>
    /\ UNCHANGED <<maxLength, srcIn>>
    /\ UNCHANGED OtherThanSource

\* stream.read(&mut tmp): Ok(0) when the peer has closed, n more bytes, or
\* a read error.
SourceRead(n, readOk) ==
    /\ srcConn = "open"
    /\ srcPhase = "read"
    /\ srcError' = NoError
    /\ IF ~readOk
       THEN /\ srcLog' = Append(srcLog, "read error")
            /\ srcConn' = "closed"
            /\ UNCHANGED <<srcIn, srcBuf, srcPhase>>
       ELSE IF srcIn = <<>>
       THEN /\ srcConn' = "closed"
            /\ UNCHANGED <<srcIn, srcBuf, srcPhase, srcLog>>
       ELSE /\ n <= Len(srcIn)
            /\ srcBuf' = srcBuf \o SubSeq(srcIn, 1, n)
            /\ srcIn' = SubSeq(srcIn, n + 1, Len(srcIn))
            /\ srcPhase' = "decode"
            /\ UNCHANGED <<srcConn, srcLog>>
    /\ UNCHANGED <<maxLength, srcSent>>
    /\ UNCHANGED OtherThanSource

SourceNext ==
    \/ \E outcome \in DecodeOutcomes, channelOpen \in BOOLEAN :
          SourceDecode(outcome, channelOpen)
    \/ \E n \in 1..MaxWire, readOk \in BOOLEAN : SourceRead(n, readOk)

\* ------------------------------------------------------------------------
\* Endpoint tasks (pipeline: spawn_source, spawn_pipeline_sink; server:
\* App::serve)
\* ------------------------------------------------------------------------

\* Connections of the endpoint, in the order the transport hands them out.
Conns == 1..MaxConns

\* A death that takes every running worker with it.
AllWorkersEnded(c) ==
    [d \in Conns |-> IF workers[d] = "running" THEN "ended" ELSE workers[d]]

\* The worker of connection c returns from handle_source_connection or
\* handle_sink_connection; the spawn_blocking closure holds nothing but
\* clones.
WorkerEnded(c) == [workers EXCEPT ![c] = "ended"]

TasksInit ==
    /\ transport \in {"tcp-server", "tcp-client"}
    /\ connOverflow \in Policies
    /\ acceptor = "starting"
    /\ receiver = "running"
    /\ mainTask = "running"
    /\ workers = [c \in Conns |-> "none"]
    /\ connQueue = <<>>
    /\ accepted = 0
    /\ token = FALSE
    /\ serve = "ready"
    /\ died = {}
    /\ acceptedAfterDeath = FALSE

\* No endpoint was spawned.
TasksIdle ==
    /\ transport = "tcp-server"
    /\ connOverflow = "Drop"
    /\ acceptor = "stopped"
    /\ receiver = "finished"
    /\ mainTask = "finished"
    /\ workers = [c \in Conns |-> "none"]
    /\ connQueue = <<>>
    /\ accepted = 0
    /\ token = FALSE
    /\ serve = "ready"
    /\ died = {}
    /\ acceptedAfterDeath = FALSE

\* The acceptor thread calls transport.start(); an error ends the thread.
AcceptorStart(ok) ==
    /\ acceptor = "starting"
    /\ acceptor' = IF ok THEN "running" ELSE "stopped"
    /\ UNCHANGED <<transport, connOverflow, receiver, mainTask, workers,
                   connQueue, accepted, token, serve, died, acceptedAfterDeath>>
    /\ UNCHANGED OtherThanTask

\* transport.next_connection() returns a stream, and the acceptor hands it
\* to the connection channel with blocking_send_with_overflow: a closed
\* channel ends the acceptor, a full one drops the stream (Drop) or blocks
\* the acceptor (BackPressure).
Accept ==
    /\ acceptor = "running"
    /\ accepted < MaxConns
    /\ transport = "tcp-client" => accepted = 0
    /\ receiver = "running" /\ Len(connQueue) >= ConnBuffer =>
          connOverflow = "Drop"
    /\ accepted' = accepted + 1
    /\ acceptedAfterDeath' = (acceptedAfterDeath \/ died # {})
    /\ IF receiver # "running"
       THEN acceptor' = "stopped" /\ UNCHANGED connQueue
       ELSE /\ UNCHANGED acceptor
            /\ connQueue' = IF Len(connQueue) >= ConnBuffer THEN connQueue
                            ELSE Append(connQueue, accepted + 1)
    /\ UNCHANGED <<transport, connOverflow, receiver, mainTask, workers, token,
                   serve, died>>
    /\ UNCHANGED OtherThanTask

\* transport.next_connection() returns Ok(None): the tcp-client transport
\* after its one connection.
AcceptNone ==
    /\ acceptor = "running"
    /\ transport = "tcp-client"
    /\ accepted > 0
    /\ acceptor' = "stopped"
    /\ UNCHANGED <<transport, connOverflow, receiver, mainTask, workers,
                   connQueue, accepted, token, serve, died, acceptedAfterDeath>>
    /\ UNCHANGED OtherThanTask

\* The connection receiver takes a stream and spawns its blocking worker.
ReceiveConn ==
    /\ receiver = "running"
    /\ connQueue # <<>>
    /\ workers' = [workers EXCEPT ![Head(connQueue)] = "running"]
    /\ connQueue' = Tail(connQueue)
    /\ UNCHANGED <<transport, connOverflow, acceptor, receiver, mainTask,
                   accepted, token, serve, died, acceptedAfterDeath>>
    /\ UNCHANGED OtherThanTask

\* The connection receiver ends: the token is cancelled, or the channel is
\* empty and its sender, the acceptor, is gone.
ReceiverEnds ==
    /\ receiver = "running"
    /\ token \/ (connQueue = <<>> /\ acceptor = "stopped")
    /\ receiver' = "finished"
    /\ UNCHANGED <<transport, connOverflow, acceptor, mainTask, workers,
                   connQueue, accepted, token, serve, died, acceptedAfterDeath>>
    /\ UNCHANGED OtherThanTask

\* The worker of a connection returns because its connection died: a read
\* error, a decode error that is not a format error, a write error, or the
\* peer closed.
WorkerDies(c) ==
    /\ workers[c] = "running"
    /\ workers' = WorkerEnded(c)
    /\ died' = died \cup {c}
    /\ UNCHANGED <<transport, connOverflow, acceptor, receiver, mainTask,
                   connQueue, accepted, token, serve, acceptedAfterDeath>>
    /\ UNCHANGED OtherThanTask

\* The worker of a connection returns because the channel to or from the
\* endpoint's task is closed: the task and the connection receiver, which
\* hold its other ends, are gone.
WorkerChannelClosed(c) ==
    /\ workers[c] = "running"
    /\ mainTask # "running"
    /\ receiver # "running"
    /\ workers' = [workers EXCEPT ![c] = "ended"]
    /\ UNCHANGED <<transport, connOverflow, acceptor, receiver, mainTask,
                   connQueue, accepted, token, serve, died, acceptedAfterDeath>>
    /\ UNCHANGED OtherThanTask

\* The endpoint's task leaves its loop: the token is cancelled.
MainCancelled ==
    /\ mainTask = "running"
    /\ token
    /\ mainTask' = "finished"
    /\ UNCHANGED <<transport, connOverflow, acceptor, receiver, workers,
                   connQueue, accepted, token, serve, died, acceptedAfterDeath>>
    /\ UNCHANGED OtherThanTask

\* App::serve after ctrl_c: token.cancel(), then it sleeps.
ServeCancel ==
    /\ serve = "ready"
    /\ token' = TRUE
    /\ serve' = "draining"
    /\ UNCHANGED <<transport, connOverflow, acceptor, receiver, mainTask,
                   workers, connQueue, accepted, died, acceptedAfterDeath>>
    /\ UNCHANGED OtherThanTask

\* App::serve after the sleep: the handles that are not finished are
\* aborted, every handle is awaited, and serve returns.  During the sleep
\* the tasks that wait on the token have been polled and the acceptor
\* thread has started its transport.
ServeFinish ==
    /\ serve = "draining"
    /\ receiver # "running"
    /\ acceptor # "starting"
    /\ mainTask' = IF mainTask = "running" THEN "aborted" ELSE mainTask
    /\ serve' = "complete"
    /\ UNCHANGED <<transport, connOverflow, acceptor, receiver, workers,
                   connQueue, accepted, token, died, acceptedAfterDeath>>
    /\ UNCHANGED OtherThanTask

TasksNext ==
    \/ \E ok \in BOOLEAN : AcceptorStart(ok)
    \/ Accept
    \/ AcceptNone
    \/ ReceiveConn
    \/ ReceiverEnds
    \/ \E c \in Conns : WorkerDies(c)
    \/ \E c \in Conns : WorkerChannelClosed(c)
    \/ MainCancelled
    \/ ServeCancel
    \/ ServeFinish

\* ------------------------------------------------------------------------
\* Source and sink configs (pipeline: SourceConfig / SinkConfig validate;
\* server: bootstrap)
\* ------------------------------------------------------------------------

\* SourceConfig / SinkConfig: which of the Option fields are set.
EndpointConfigs ==
    [plugin : BOOLEAN, transport : BOOLEAN, framing : BOOLEAN, codec : BOOLEAN]

\* is_pipeline
IsPipeline(c) == c.transport

\* validate: Ok(()) or Err
Validate(c) ==
    LET has_plugin == c.plugin
        has_pipeline == c.transport \/ c.framing \/ c.codec
    IN IF has_plugin /\ has_pipeline THEN FALSE
       ELSE IF ~has_plugin /\ ~has_pipeline THEN FALSE
       ELSE IF has_pipeline /\ (~c.framing \/ ~c.codec) THEN FALSE
       ELSE TRUE

ConfigInit ==
    /\ endpoints \in SeqsUpTo(EndpointConfigs, MaxEndpoints)
    /\ validated = <<>>
    /\ spawnedAs = <<>>
    /\ bootstrapped = "running"

\* No server config.
ConfigIdle ==
    /\ endpoints = <<>>
    /\ validated = <<>>
    /\ spawnedAs = <<>>
    /\ bootstrapped = "done"

\* One turn of the loop over the entries: validate()?, then a pipeline
\* endpoint is loaded from transport, framing and codec, or a plugin is
\* loaded from plugin.as_ref().unwrap().
BootstrapEndpoint ==
    /\ bootstrapped = "running"
    /\ Len(validated) < Len(endpoints)
    /\ LET c == endpoints[Len(validated) + 1] IN
         /\ validated' = Append(validated, [cfg |-> c, ok |-> Validate(c)])
         /\ IF ~Validate(c)
            THEN bootstrapped' = "error" /\ UNCHANGED spawnedAs
            ELSE IF IsPipeline(c)
            THEN IF c.framing /\ c.codec
                 THEN /\ spawnedAs' = Append(spawnedAs, "pipeline")
                      /\ UNCHANGED bootstrapped
                 ELSE bootstrapped' = "panic" /\ UNCHANGED spawnedAs
            ELSE IF c.plugin
                 THEN /\ spawnedAs' = Append(spawnedAs, "plugin")
                      /\ UNCHANGED bootstrapped
                 ELSE bootstrapped' = "panic" /\ UNCHANGED spawnedAs
    /\ UNCHANGED endpoints
    /\ UNCHANGED OtherThanCfg

\* The loop is over.
BootstrapDone ==
    /\ bootstrapped = "running"
    /\ Len(validated) = Len(endpoints)
    /\ bootstrapped' = "done"
    /\ UNCHANGED <<endpoints, validated, spawnedAs>>
    /\ UNCHANGED OtherThanCfg

ConfigNext == BootstrapEndpoint \/ BootstrapDone

\* ------------------------------------------------------------------------
\* Processor tasks (pipeline: spawn_processor_task; gauss-engine:
\* spawn_processor with the passthrough processor)
\* ------------------------------------------------------------------------

\* Result of handling one record: of processor.process in the pipeline, of
\* writer.send in the passthrough processor.
ProcResults == {"Ok", "Err"}

ProcInit ==
    /\ procHost \in {"pipeline", "gauss-engine"}
    /\ procIn \in SeqsUpTo(ProcResults, MaxProcRecords)
    /\ procPc = "running"
    /\ procDone = <<>>
    /\ procLog = <<>>

\* No processor task.
ProcIdle ==
    /\ procHost = "pipeline"
    /\ procIn = <<>>
    /\ procPc = "closed"
    /\ procDone = <<>>
    /\ procLog = <<>>

\* A record arrives and is handled.  spawn_processor_task logs an Err of
\* processor.process and goes on; PassthroughProcessor::run returns the Err
\* of writer.send with `?`, and the task of spawn_processor logs it and
\* ends.
ProcessRecord ==
    /\ procPc = "running"
    /\ procIn # <<>>
    /\ procIn' = Tail(procIn)
    /\ procDone' = Append(procDone, Head(procIn))
    /\ IF Head(procIn) = "Ok"
       THEN UNCHANGED <<procPc, procLog>>
       ELSE /\ procLog' = Append(procLog, "processor error")
            /\ procPc' = IF procHost = "pipeline" THEN procPc ELSE "error"
    /\ UNCHANGED procHost
    /\ UNCHANGED OtherThanProc

\* The subscription or reader yields None: the loop ends.
ProcInputClosed ==
    /\ procPc = "running"
    /\ procIn = <<>>
    /\ procPc' = "closed"
    /\ procLog' = Append(procLog, "processor stopped")
    /\ UNCHANGED <<procHost, procIn, procDone>>
    /\ UNCHANGED OtherThanProc

\* token.cancelled() / shutdown_rx.changed(): the task ends.
ProcShutdown ==
    /\ procPc = "running"
    /\ procPc' = "shutdown"
    /\ procLog' = Append(procLog, IF procHost = "pipeline"
                                   THEN "processor stopped"
                                   ELSE "processor shutting down")
    /\ UNCHANGED <<procHost, procIn, procDone>>
    /\ UNCHANGED OtherThanProc

ProcNext == ProcessRecord \/ ProcInputClosed \/ ProcShutdown

\* ---------------------------------------------------------------------
\* Storage backends: save and the time-range query.

\* The keys of the records, in the order their file names sort.
KeyOrder == <<"a", "b">>

RecordKeys == {KeyOrder[k] : k \in DOMAIN KeyOrder}

\* ts_ms of the records: milliseconds of one calendar day.
Timestamps == 0..1

\* TopicRecord; the value is the number of the save call that brought it.
StorageRecords == [ts_ms : Timestamps, key : RecordKeys, value : 1..MaxSaves]

\* Option<T>: None, or Some(v).
NoKey == [some |-> FALSE, v |-> ""]

NoInt == [some |-> FALSE, v |-> 0]

Some(x) == [some |-> TRUE, v |-> x]

\* TopicQuery: key, from_ms, to_ms and limit, each optional.
TopicQueries ==
    [key : {NoKey} \cup {Some(k) : k \in RecordKeys},
     from_ms : {NoInt} \cup {Some(t) : t \in Timestamps},
     to_ms : {NoInt} \cup {Some(t) : t \in Timestamps},
     limit : {NoInt} \cup {Some(n) : n \in 1..MaxLimit}]

\* The query with no filter and no limit.
Unfiltered == [key |-> NoKey, from_ms |-> NoInt, to_ms |-> NoInt, limit |-> NoInt]

\* The backends with the configuration each is built from.  MemoryStorage::new
\* takes any max_records; MemoryRingBuffer::new refuses a storage_size of 0.
Backends ==
    [kind : {"MemoryStorage"}, size : {0, 1, MaxSaves}, write_full : {"none"},
     partition_by : {"none"}, write_mode : {"none"}]
    \cup [kind : {"MemoryRingBuffer"}, size : {1, MaxSaves},
          write_full : {"drop", "overwrite"},
          partition_by : {"none"}, write_mode : {"none"}]
    \cup [kind : {"RawFileStorage"}, size : {0}, write_full : {"none"},
          partition_by : {"none"}, write_mode : {"none"}]
    \cup [kind : {"FileStorage"}, size : {0}, write_full : {"none"},
          partition_by : {"key", "date"}, write_mode : {"upsert", "append"}]

\* The day every timestamp of the model falls on: the name of its date file.
DateFile == "1970-01-01"

\* The in-memory deque of the memory backends.
Buffer == "buffer"

FileNames == RecordKeys \cup {DateFile, Buffer}

\* Whether the backend writes files, so that save can fail on I/O.
OnDisk(b) == b.kind \in {"RawFileStorage", "FileStorage"}

\* FileStorage::record_path, and the one place the other backends write to.
RecordPath(b, r) ==
    IF b.kind \in {"MemoryStorage", "MemoryRingBuffer"} THEN Buffer
    ELSE IF b.kind = "FileStorage" /\ b.partition_by = "key" THEN r.key
    ELSE DateFile

\* FileStorage::upsert_line: a last line of the same ts_ms is overwritten.
UpsertLine(lines, r) ==
    IF lines # <<>> /\ lines[Len(lines)].ts_ms = r.ts_ms
    THEN SubSeq(lines, 1, Len(lines) - 1) \o <<r>>
    ELSE lines \o <<r>>

\* VecDeque::pop_front: the deque without its first element, if it has one.
PopFront(s) == IF s = <<>> THEN s ELSE Tail(s)

\* What save leaves in the file or buffer it writes to.
SaveInto(b, lines, r) ==
    IF b.kind = "MemoryStorage"
    THEN (IF Len(lines) >= b.size THEN PopFront(lines) ELSE lines) \o <<r>>
    ELSE IF b.kind = "MemoryRingBuffer"
    THEN IF Len(lines) >= b.size
         THEN IF b.write_full = "drop" THEN lines ELSE PopFront(lines) \o <<r>>
         ELSE lines \o <<r>>
    ELSE IF b.kind = "FileStorage" /\ b.write_mode = "upsert"
    THEN UpsertLine(lines, r)
    ELSE lines \o <<r>>

\* The filter of MemoryStorage::query, RawFileStorage::do_query and
\* FileStorage::do_query: key equal, ts_ms not below from, ts_ms below to.
QueryFilter(q, r) ==
    /\ q.key.some => r.key = q.key.v
    /\ q.from_ms.some => ~(r.ts_ms < q.from_ms.v)
    /\ q.to_ms.some => ~(r.ts_ms >= q.to_ms.v)

\* The filter of MemoryRingBuffer::read in Query mode: ReadParams has no key,
\* and both ends of the range are compared with <= and >=.
RingFilter(q, r) ==
    /\ q.from_ms.some => r.ts_ms >= q.from_ms.v
    /\ q.to_ms.some => r.ts_ms <= q.to_ms.v

\* Vec::split_off(len - limit): the last limit elements.
LastN(s, n) == IF Len(s) > n THEN SubSeq(s, Len(s) - n + 1, Len(s)) ELSE s

\* Iterator::take(limit): the first limit elements.
FirstN(s, n) == IF Len(s) > n THEN SubSeq(s, 1, n) ELSE s

\* sort_by_key(|r| r.ts_ms): a stable sort on ts_ms.
RECURSIVE SortByTs(_, _)
SortByTs(s, ts) ==
    IF ts = {} THEN <<>>
    ELSE LET t == CHOOSE x \in ts : \A y \in ts : x <= y
             At(r) == r.ts_ms = t
         IN SelectSeq(s, At) \o SortByTs(s, ts \ {t})

\* FileStorage::resolve_query_files for partition_by = key: the file of the
\* query's key if it exists, else every key file in the order of the names.
RECURSIVE KeyFiles(_, _)
KeyFiles(fs, k) ==
    IF k > Len(KeyOrder) THEN <<>>
    ELSE (IF fs[KeyOrder[k]] # <<>> THEN <<KeyOrder[k]>> ELSE <<>>)
         \o KeyFiles(fs, k + 1)

ResolveQueryFiles(b, fs, q) ==
    IF b.partition_by = "key"
    THEN IF q.key.some
         THEN IF fs[q.key.v] # <<>> THEN <<q.key.v>> ELSE <<>>
         ELSE KeyFiles(fs, 1)
    ELSE IF fs[DateFile] # <<>> THEN <<DateFile>> ELSE <<>>

\* The lines of the files, file after file.
RECURSIVE ReadFiles(_, _)
ReadFiles(fs, paths) ==
    IF paths = <<>> THEN <<>>
    ELSE fs[Head(paths)] \o ReadFiles(fs, Tail(paths))

\* What query returns, backend by backend.
Query(b, fs, q) ==
    LET Keep(r) == QueryFilter(q, r)
        RingKeep(r) == RingFilter(q, r)
    IN IF b.kind = "MemoryStorage"
       THEN LET matching == SelectSeq(fs[Buffer], Keep)
            IN IF q.limit.some THEN LastN(matching, q.limit.v) ELSE matching
       ELSE IF b.kind = "MemoryRingBuffer"
       THEN FirstN(SelectSeq(fs[Buffer], RingKeep),
                   IF q.limit.some THEN q.limit.v ELSE DefaultQueryLimit)
       ELSE IF b.kind = "RawFileStorage"
       THEN LET matching == SelectSeq(fs[DateFile], Keep)
            IN IF q.limit.some THEN FirstN(matching, q.limit.v) ELSE matching
       ELSE LET paths == ResolveQueryFiles(b, fs, q)
                found == SelectSeq(ReadFiles(fs, paths), Keep)
                matching == IF Len(paths) > 1
                          THEN SortByTs(found, Timestamps)
                          ELSE found
            IN IF q.limit.some THEN LastN(matching, q.limit.v) ELSE matching

\* A backend just created: nothing stored, nothing asked.
StoreInit ==
    /\ backend \in Backends
    /\ files = [f \in FileNames |-> <<>>]
    /\ savedOk = <<>>
    /\ saveFailed = <<>>
    /\ lastQuery = Unfiltered
    /\ queryResult = [done |-> FALSE, records |-> <<>>]

\* No storage backend.
StoreIdle ==
    /\ backend = [kind |-> "RawFileStorage", size |-> 0, write_full |-> "none",
                  partition_by |-> "none", write_mode |-> "none"]
    /\ files = [f \in FileNames |-> <<>>]
    /\ savedOk = <<>>
    /\ saveFailed = <<>>
    /\ lastQuery = Unfiltered
    /\ queryResult = [done |-> FALSE, records |-> <<>>]

\* save(record): the memory backends always return Ok; the file backends
\* return Err, and write nothing, when the file cannot be opened or written.
StorageSave(r, ioOk) ==
    /\ Len(savedOk) + Len(saveFailed) < MaxSaves
    /\ r.value = Len(savedOk) + Len(saveFailed) + 1
    /\ ~ioOk => OnDisk(backend)
    /\ IF ioOk
       THEN /\ files' = [files EXCEPT ![RecordPath(backend, r)] =
                             SaveInto(backend, @, r)]
            /\ savedOk' = Append(savedOk, r)
            /\ UNCHANGED saveFailed
       ELSE /\ saveFailed' = Append(saveFailed, r)
            /\ UNCHANGED <<files, savedOk>>
    /\ lastQuery' = Unfiltered
    /\ queryResult' = [done |-> FALSE, records |-> <<>>]
    /\ UNCHANGED backend
    /\ UNCHANGED OtherThanStore

\* query(q). It only reads, so one call between two saves shows every
\* result the backend can give for what it holds.
StorageQuery(q) ==
    /\ ~queryResult.done
    /\ lastQuery' = q
    /\ queryResult' = [done |-> TRUE, records |-> Query(backend, files, q)]
    /\ UNCHANGED <<backend, files, savedOk, saveFailed>>
    /\ UNCHANGED OtherThanStore

StoreNext ==
    \/ \E r \in StorageRecords, ioOk \in BOOLEAN : StorageSave(r, ioOk)
    \/ \E q \in TopicQueries : StorageQuery(q)

\* ---------------------------------------------------------------------
\* Lines framing: one payload encoded, then decoded.

\* Bytes of the payloads: a letter, a zero byte and '\r'; never '\n'.
LineBytes == {0, 97, CR}

\* A framing just created, with a payload to frame.
LinesInit ==
    /\ lineX \in SeqsUpTo(LineBytes, MaxLine)
    /\ lineMax \in {0, MaxLine - 1}
    /\ lineWire = <<>>
    /\ lineOut = [state |-> "none", frame |-> <<>>, consumed |-> 0]
    /\ linePc = "start"

\* No lines framing.
LinesIdle ==
    /\ lineX = <<>>
    /\ lineMax = 0
    /\ lineWire = <<>>
    /\ lineOut = [state |-> "none", frame |-> <<>>, consumed |-> 0]
    /\ linePc = "decoded"

\* framing.encode(x, &mut buf) on an empty buffer.
LinesEncodeCall ==
    /\ linePc = "start"
    /\ lineWire' = LinesEncode(lineX)
    /\ linePc' = "encoded"
    /\ UNCHANGED <<lineX, lineMax, lineOut>>
    /\ UNCHANGED OtherThanLines

\* framing.decode(&buf) on what encode wrote.
LinesDecodeCall ==
    /\ linePc = "encoded"
    /\ lineOut' = LinesDecode(lineMax, lineWire)
    /\ linePc' = "decoded"
    /\ UNCHANGED <<lineX, lineMax, lineWire>>
    /\ UNCHANGED OtherThanLines

LinesNext == LinesEncodeCall \/ LinesDecodeCall

\* ---------------------------------------------------------------------
\* Topic::publish, the pass over the subscribers alone: the loop runs under
\* the write lock of the list, while receivers may be dropped at any time.

PassIds == 1..MaxPassSubs

\* The lists of distinct subscribers.
SubscriberLists ==
    {s \in SeqsUpTo(PassIds, MaxPassSubs) :
        \A j, k \in DOMAIN s : j # k => s[j] # s[k]}

\* The index the loop goes on with after subs.swap_remove(i): `continue`
\* leaves i as it is, so the element moved into slot i is looked at next.
IndexAfterRemoveAdvancing(k) == k + 1

IndexAfterRemove(k) == k

\* The write lock was just taken, i = 0 in the code.
PassInit ==
    /\ passSubs \in SubscriberLists
    /\ passPolicy \in [PassIds -> Policies]
    /\ passClosed \in SUBSET PassIds
    /\ passClosedAtStart = passClosed
    /\ passI = 1
    /\ passAttempts = <<>>
    /\ passPc = "iter"

\* No pass.
PassIdle ==
    /\ passSubs = <<>>
    /\ passPolicy = [s \in PassIds |-> "Drop"]
    /\ passClosed = {}
    /\ passClosedAtStart = {}
    /\ passI = 1
    /\ passAttempts = <<>>
    /\ passPc = "done"

\* One iteration of `while i < subs.len()`: a closed channel is removed in
\* place; the Drop arm calls try_send, and removes the subscriber when the
\* receiver was dropped since the is_closed test; the BackPressure arm
\* spawns the sending task.
PassIter(droppedSince) ==
    /\ passPc = "iter"
    /\ passI <= Len(passSubs)
    /\ LET s == passSubs[passI] IN
         IF s \in passClosed
         THEN /\ ~droppedSince
              /\ passSubs' = SwapRemove(passSubs, passI)
              /\ passI' = IndexAfterRemove(passI)
              /\ UNCHANGED <<passAttempts, passClosed>>
         ELSE IF passPolicy[s] = "Drop" /\ droppedSince
         THEN /\ passClosed' = passClosed \cup {s}
              /\ passAttempts' = Append(passAttempts, s)
              /\ passSubs' = SwapRemove(passSubs, passI)
              /\ passI' = IndexAfterRemove(passI)
         ELSE /\ ~droppedSince
              /\ passAttempts' = Append(passAttempts, s)
              /\ passI' = passI + 1
              /\ UNCHANGED <<passSubs, passClosed>>
    /\ UNCHANGED <<passPolicy, passClosedAtStart, passPc>>
    /\ UNCHANGED OtherThanPass

\* A receiver is dropped while the pass runs.
PassDropRx(s) ==
    /\ passPc = "iter"
    /\ s \in Range(passSubs) \ passClosed
    /\ passClosed' = passClosed \cup {s}
    /\ UNCHANGED <<passSubs, passPolicy, passClosedAtStart, passI,
                   passAttempts, passPc>>
    /\ UNCHANGED OtherThanPass

\* The loop ends and the guard is dropped.
PassDone ==
    /\ passPc = "iter"
    /\ passI > Len(passSubs)
    /\ passPc' = "done"
    /\ UNCHANGED <<passSubs, passPolicy, passClosed, passClosedAtStart, passI,
                   passAttempts>>
    /\ UNCHANGED OtherThanPass

PassNext ==
    \/ \E droppedSince \in BOOLEAN : PassIter(droppedSince)
    \/ \E s \in PassIds : PassDropRx(s)
    \/ PassDone

\* ---------------------------------------------------------------------
\* Pipeline sink, tier 1: the subscriptions of the topics feed the
\* broadcast, directly for one topic, through a merge channel for several.

MergeTopics == 1..MaxMergeTopics

\* A merge channel that hands out the newest record first.
MergeSendInFront(q, r) == <<r>> \o q

\* mpsc::Sender::send on the merge channel: the record joins the queue.
MergeSend(q, r) == Append(q, r)

MergeInit ==
    /\ mergeTopics \in MergeTopics
    /\ yielded = [t \in MergeTopics |-> 0]
    /\ inHand = [t \in MergeTopics |-> 0]
    /\ fwd = [t \in MergeTopics |->
                IF mergeTopics > 1 /\ t <= mergeTopics THEN "running"
                ELSE "none"]
    /\ mergeQ = <<>>
    /\ bcast = <<>>
    /\ mergeMain = "running"
    /\ mergeToken = FALSE

\* No pipeline sink.
MergeIdle ==
    /\ mergeTopics = 1
    /\ yielded = [t \in MergeTopics |-> 0]
    /\ inHand = [t \in MergeTopics |-> 0]
    /\ fwd = [t \in MergeTopics |-> "none"]
    /\ mergeQ = <<>>
    /\ bcast = <<>>
    /\ mergeMain = "finished"
    /\ mergeToken = FALSE

\* One topic: the task of the sink takes the next record of the
\* subscription and gives it to the broadcast.
DirectForward ==
    /\ mergeTopics = 1
    /\ mergeMain = "running"
    /\ yielded[1] < MaxMergeRecords
    /\ yielded' = [yielded EXCEPT ![1] = @ + 1]
    /\ bcast' = Append(bcast, [topic |-> 1, n |-> yielded[1] + 1])
    /\ UNCHANGED <<mergeTopics, inHand, fwd, mergeQ, mergeMain, mergeToken>>
    /\ UNCHANGED OtherThanMerge

\* Several topics: the forwarder of topic t takes the next record of its
\* subscription.
ForwarderRecv(t) ==
    /\ fwd[t] = "running"
    /\ inHand[t] = 0
    /\ yielded[t] < MaxMergeRecords
    /\ yielded' = [yielded EXCEPT ![t] = @ + 1]
    /\ inHand' = [inHand EXCEPT ![t] = yielded[t] + 1]
    /\ UNCHANGED <<mergeTopics, fwd, mergeQ, bcast, mergeMain, mergeToken>>
    /\ UNCHANGED OtherThanMerge

\* tx.send(record).await of the forwarder completes: the record is in the
\* merge channel, or the receiver is gone and the forwarder ends.
ForwarderSend(t) ==
    /\ fwd[t] = "running"
    /\ inHand[t] # 0
    /\ IF mergeMain # "running"
       THEN /\ fwd' = [fwd EXCEPT ![t] = "ended"]
            /\ UNCHANGED mergeQ
       ELSE /\ Len(mergeQ) < MergeBuffer
            /\ mergeQ' = MergeSend(mergeQ, [topic |-> t, n |-> inHand[t]])
            /\ UNCHANGED fwd
    /\ inHand' = [inHand EXCEPT ![t] = 0]
    /\ UNCHANGED <<mergeTopics, yielded, bcast, mergeMain, mergeToken>>
    /\ UNCHANGED OtherThanMerge

\* The forwarder leaves its loop: the subscription yielded None, or the
\* token is cancelled.
ForwarderEnds(t, cancelled) ==
    /\ fwd[t] = "running"
    /\ inHand[t] = 0
    /\ cancelled => mergeToken
    /\ fwd' = [fwd EXCEPT ![t] = "ended"]
    /\ UNCHANGED <<mergeTopics, yielded, inHand, mergeQ, bcast, mergeMain,
                   mergeToken>>
    /\ UNCHANGED OtherThanMerge

\* Several topics: the task of the sink takes a record from the merge
\* channel and gives it to the broadcast.
MergeForward ==
    /\ mergeTopics > 1
    /\ mergeMain = "running"
    /\ mergeQ # <<>>
    /\ bcast' = Append(bcast, Head(mergeQ))
    /\ mergeQ' = Tail(mergeQ)
    /\ UNCHANGED <<mergeTopics, yielded, inHand, fwd, mergeMain, mergeToken>>
    /\ UNCHANGED OtherThanMerge

\* The task of the sink leaves its loop: the token is cancelled, or the
\* merge channel is empty with every forwarder gone.
MergeMainEnds ==
    /\ mergeMain = "running"
    /\ \/ mergeToken
       \/ /\ mergeTopics > 1
          /\ mergeQ = <<>>
          /\ \A t \in MergeTopics : fwd[t] # "running"
    /\ mergeMain' = "finished"
    /\ UNCHANGED <<mergeTopics, yielded, inHand, fwd, mergeQ, bcast,
                   mergeToken>>
    /\ UNCHANGED OtherThanMerge

\* token.cancel()
MergeCancel ==
    /\ ~mergeToken
    /\ mergeToken' = TRUE
    /\ UNCHANGED <<mergeTopics, yielded, inHand, fwd, mergeQ, bcast,
                   mergeMain>>
    /\ UNCHANGED OtherThanMerge

MergeNext ==
    \/ DirectForward
    \/ \E t \in MergeTopics : ForwarderRecv(t)
    \/ \E t \in MergeTopics : ForwarderSend(t)
    \/ \E t \in MergeTopics, cancelled \in BOOLEAN : ForwarderEnds(t, cancelled)
    \/ MergeForward
    \/ MergeMainEnds
    \/ MergeCancel

\* ---------------------------------------------------------------------
\* Pipeline sink, fan-out: one connection on its way from the transport to
\* its writer, while the task of the sink feeds the broadcast.

FanRecords == 1..MaxFanRecords

FanInit ==
    /\ fanStage = "none"
    /\ fanRx = <<>>
    /\ fanLagged = FALSE
    /\ fanFed = <<>>
    /\ fanFedAfterAccept = {}
    /\ fanWritten = <<>>

\* No pipeline sink.
FanIdle ==
    /\ fanStage = "dead"
    /\ fanRx = <<>>
    /\ fanLagged = FALSE
    /\ fanFed = <<>>
    /\ fanFedAfterAccept = {}
    /\ fanWritten = <<>>

\* The acceptor thread: transport.next_connection() returns the stream.
FanAccept ==
    /\ fanStage = "none"
    /\ fanStage' = "accepted"
    /\ UNCHANGED <<fanRx, fanLagged, fanFed, fanFedAfterAccept, fanWritten>>
    /\ UNCHANGED OtherThanFan

\* The acceptor thread: blocking_send_with_overflow puts the stream into
\* the connection channel.
FanQueue ==
    /\ fanStage = "accepted"
    /\ fanStage' = "queued"
    /\ UNCHANGED <<fanRx, fanLagged, fanFed, fanFedAfterAccept, fanWritten>>
    /\ UNCHANGED OtherThanFan

\* The connection receiver: conn_rx.recv() yields the stream, and only now
\* accept_bcast_tx.subscribe() creates the receiver its writer reads; a
\* broadcast receiver sees the records sent after it was created.
FanSubscribe ==
    /\ fanStage = "queued"
    /\ fanStage' = "serving"
    /\ fanRx' = <<>>
    /\ UNCHANGED <<fanLagged, fanFed, fanFedAfterAccept, fanWritten>>
    /\ UNCHANGED OtherThanFan

\* The task of the sink: bcast_tx.send(record), its result ignored.  The
\* record reaches the receivers that exist; a full receiver loses its
\* oldest record.
FanFeed ==
    /\ Len(fanFed) < MaxFanRecords
    /\ LET r == Len(fanFed) + 1 IN
         /\ fanFed' = Append(fanFed, r)
         /\ fanFedAfterAccept' =
                IF fanStage \in {"accepted", "queued", "serving"}
                THEN fanFedAfterAccept \cup {r}
                ELSE fanFedAfterAccept
         /\ IF fanStage # "serving"
            THEN UNCHANGED <<fanRx, fanLagged>>
            ELSE IF Len(fanRx) >= FanBuffer
            THEN fanRx' = Append(Tail(fanRx), r) /\ fanLagged' = TRUE
            ELSE fanRx' = Append(fanRx, r) /\ UNCHANGED fanLagged
    /\ UNCHANGED <<fanStage, fanWritten>>
    /\ UNCHANGED OtherThanFan

\* handle_sink_connection: blocking_recv yields a record, it is encoded and
\* written; a write error ends the connection.
FanWrite(writeOk) ==
    /\ fanStage = "serving"
    /\ fanRx # <<>>
    /\ fanRx' = Tail(fanRx)
    /\ IF writeOk
       THEN fanWritten' = Append(fanWritten, Head(fanRx)) /\ UNCHANGED fanStage
       ELSE fanStage' = "dead" /\ UNCHANGED fanWritten
    /\ UNCHANGED <<fanLagged, fanFed, fanFedAfterAccept>>
    /\ UNCHANGED OtherThanFan

FanNext ==
    \/ FanAccept
    \/ FanQueue
    \/ FanSubscribe
    \/ FanFeed
    \/ \E writeOk \in BOOLEAN : FanWrite(writeOk)

\* ---------------------------------------------------------------------
\* gauss-engine: a RegistryTopicReader on a topic stored in a
\* MemoryRingBuffer. Records are numbered by the save call that brought them.

ReadModes == {"Offset", "Latest"}

RingConfigs == [size : {1, 2}, write_full : {"drop", "overwrite"}]

\* What recv returns when the read failed.
NoRecord == [offset |-> 0, record |-> 0]

\* An offset handed back that points at the record just returned.
SameOffset(e) == e.offset

\* ReadResult.next_offset after entry e was returned: the offset behind it.
NextOffset(e) == e.offset + 1

\* MemoryRingBuffer::read in Offset mode with limit 1: the first entry at or
\* behind the offset asked for.
ReadOffset(buf, start) ==
    LET At(e) == ~(e.offset < start) IN FirstN(SelectSeq(buf, At), 1)

\* MemoryRingBuffer::read in Latest mode with limit 1: the last entry.
ReadLatest(buf) == LastN(buf, 1)

ReaderInit ==
    /\ ringConf \in RingConfigs
    /\ ring = <<>>
    /\ ringNext = 0
    /\ ringSaves = 0
    /\ readMode \in ReadModes
    /\ rdOffset = 0
    /\ rdPc = "idle"
    /\ rdSignals = 0
    /\ rdReturned = <<>>
    /\ rdDue = FALSE

\* No reader.
ReaderIdle ==
    /\ ringConf = [size |-> 1, write_full |-> "overwrite"]
    /\ ring = <<>>
    /\ ringNext = 0
    /\ ringSaves = MaxRingSaves
    /\ readMode = "Offset"
    /\ rdOffset = 0
    /\ rdPc = "closed"
    /\ rdSignals = 0
    /\ rdReturned = <<>>
    /\ rdDue = FALSE

\* Topic::save: MemoryRingBuffer::save, which returns Ok, then a signal on
\* notify_tx, which the receiver of the reader keeps until it is taken.
RingSave ==
    /\ ringSaves < MaxRingSaves
    /\ ringSaves' = ringSaves + 1
    /\ LET e == [offset |-> ringNext, record |-> ringSaves + 1] IN
         IF Len(ring) >= ringConf.size /\ ringConf.write_full = "drop"
         THEN UNCHANGED <<ring, ringNext>>
         ELSE /\ ring' = (IF Len(ring) >= ringConf.size THEN PopFront(ring)
                          ELSE ring) \o <<e>>
              /\ ringNext' = ringNext + 1
    /\ rdSignals' = rdSignals + 1
    /\ rdDue' = (rdDue \/ rdPc \in {"read", "wait"})
    /\ UNCHANGED <<ringConf, readMode, rdOffset, rdPc, rdReturned>>
    /\ UNCHANGED OtherThanReader

\* recv is called.
RecvCall ==
    /\ rdPc = "idle"
    /\ Len(rdReturned) < MaxReturned
    /\ rdPc' = "read"
    /\ UNCHANGED <<ringConf, ring, ringNext, ringSaves, readMode, rdOffset,
                   rdSignals, rdReturned, rdDue>>
    /\ UNCHANGED OtherThanReader

\* One turn of the loop of recv: topic.read with limit 1.  A record is
\* returned and next_offset stored; no record sends recv to wait for a
\* signal; a failed read returns None.
RecvRead(readOk) ==
    /\ rdPc = "read"
    /\ LET found == IF readMode = "Offset" THEN ReadOffset(ring, rdOffset)
                    ELSE ReadLatest(ring)
       IN IF ~readOk
          THEN /\ rdReturned' = Append(rdReturned, NoRecord)
               /\ rdPc' = "idle"
               /\ rdDue' = FALSE
               /\ UNCHANGED rdOffset
          ELSE IF found # <<>>
          THEN /\ rdReturned' = Append(rdReturned, found[1])
               /\ rdOffset' = NextOffset(found[1])
               /\ rdPc' = "idle"
               /\ rdDue' = FALSE
          ELSE /\ rdPc' = "wait"
               /\ UNCHANGED <<rdReturned, rdOffset, rdDue>>
    /\ UNCHANGED <<ringConf, ring, ringNext, ringSaves, readMode, rdSignals>>
    /\ UNCHANGED OtherThanReader

\* rx.recv().await returns: a signal was waiting or has arrived.
RecvWake ==
    /\ rdPc = "wait"
    /\ rdSignals > 0
    /\ rdSignals' = rdSignals - 1
    /\ rdPc' = "read"
    /\ UNCHANGED <<ringConf, ring, ringNext, ringSaves, readMode, rdOffset,
                   rdReturned, rdDue>>
    /\ UNCHANGED OtherThanReader

ReaderNext ==
    \/ RingSave
    \/ RecvCall
    \/ \E readOk \in BOOLEAN : RecvRead(readOk)
    \/ RecvWake

\* ---------------------------------------------------------------------
\* gauss-engine: the processor stage of Engine::reload with two processor
\* names, lists of up to two processors, and tasks that end on their own
\* after their slot was dropped.

RespawnNames == {"P", "Q"}

\* The topics of every config here; both are registered and never change.
RespawnTopics ==
    <<[name |-> "A", storage |-> "p1.so", storage_config |-> [pm |-> 1, sh |-> 1]],
      [name |-> "C", storage |-> "p1.so", storage_config |-> [pm |-> 1, sh |-> 1]]>>

RespawnProcessorConfigs ==
    [name : RespawnNames, plugin : {"q.so", "bad"}, source : TopicNames]

\* GaussConfig.processors is a Vec<ProcessorConfig>: nothing keeps a name
\* from standing in it twice.
RespawnLists ==
    {<<>>} \cup {<<a>> : a \in RespawnProcessorConfigs}
           \cup {<<a, b>> : a \in RespawnProcessorConfigs,
                            b \in RespawnProcessorConfigs}

RespawnConfigs == [topics : {RespawnTopics}, processors : RespawnLists]

\* Engine::bootstrap with these names.
RespawnBoot(cfg) ==
    LET e0 == [NoEngine EXCEPT !.spawned = [n \in RespawnNames |-> 0]]
        e1 == BootTopics(e0, cfg, 1)
    IN IF e1.err # "Ok" THEN e1
       ELSE LET e2 == BootProcessors(e1, cfg, 1) IN
            IF e2.err # "Ok" THEN e2
            ELSE [e2 EXCEPT !.processors = e2.newp, !.newp = <<>>,
                            !.config = cfg]

\* The live engine as a record.
RespawnEngine ==
    [registry |-> RespawnBoot([topics |-> RespawnTopics,
                               processors |-> <<>>]).registry,
     created |-> [n \in TopicNames |-> 1],
     processors |-> rsSlots, running |-> rsRunning, spawned |-> rsSpawned,
     config |-> rsConfig, kept |-> <<>>, newp |-> <<>>, reconfigured |-> {},
     err |-> "Ok"]

\* Engine::reload up to its return: kept and newp hold the slots of the
\* local lists kept and new_processors that the return drops.
RespawnResult(e, new) ==
    IF DeletedTopic(e.config, new) THEN [e EXCEPT !.err = "deleted"]
    ELSE LET e1 == AddNewTopics(e, e.config, new, 1) IN
    IF e1.err # "Ok" THEN e1
    ELSE LET e2 == ReconfigureTopics(e1, e.config, new, 1) IN
    IF e2.err # "Ok" THEN e2
    ELSE LET e3 == ApplyProcessors(StopDeleted(e2, new), e.config, new, 1) IN
    IF e3.err # "Ok" THEN e3
    ELSE [e3 EXCEPT !.processors = e3.newp, !.newp = <<>>, !.config = new]

RespawnInit ==
    \E cfg \in RespawnConfigs :
        /\ RespawnBoot(cfg).err = "Ok"
        /\ rsConfig = cfg
        /\ rsSlots = RespawnBoot(cfg).processors
        /\ rsRunning = RespawnBoot(cfg).running
        /\ rsSpawned = RespawnBoot(cfg).spawned
        /\ rsOrphans = {}
        /\ rsReloads = 0
        /\ rsLast = "none"

\* No engine.
RespawnIdle ==
    /\ rsConfig = EmptyConfig
    /\ rsSlots = <<>>
    /\ rsRunning = {}
    /\ rsOrphans = {}
    /\ rsSpawned = [n \in RespawnNames |-> 0]
    /\ rsReloads = MaxRespawnReloads
    /\ rsLast = "none"

\* Engine::reload(new).  The tasks it signals and joins have ended when it
\* returns; the tasks of the slots it drops see their shutdown channel
\* close and end later, nobody waiting for them.
RespawnReload(new) ==
    /\ rsReloads < MaxRespawnReloads
    /\ rsReloads' = rsReloads + 1
    /\ LET r == RespawnResult(RespawnEngine, new) IN
         /\ rsConfig' = r.config
         /\ rsSlots' = r.processors
         /\ rsRunning' = r.running
         /\ rsSpawned' = r.spawned
         /\ rsOrphans' = rsOrphans \cup ((Range(r.kept) \cup Range(r.newp))
                                           \cap r.running)
         /\ rsLast' = r.err
    /\ UNCHANGED OtherThanRespawn

\* The task of a dropped slot takes the branch of shutdown_rx.changed() and
\* ends.
OrphanEnds(s) ==
    /\ s \in rsOrphans
    /\ rsOrphans' = rsOrphans \ {s}
    /\ rsRunning' = rsRunning \ {s}
    /\ UNCHANGED <<rsConfig, rsSlots, rsSpawned, rsReloads, rsLast>>
    /\ UNCHANGED OtherThanRespawn

RespawnNext ==
    \/ \E new \in RespawnConfigs : RespawnReload(new)
    \/ \E s \in rsOrphans : OrphanEnds(s)

\* ---------------------------------------------------------------------
\* topic-api-server: one WebSocket connection, its subscriptions and the
\* records it sends.

WsTopics == {"x", "y"}

WsKeys == {"a", "b"}

\* WsAction.key when the client names no key.
NoWsKey == ""

NoWsSub == [on |-> FALSE, keys |-> {}]

\* The test of ws_connection on a record taken from the mux channel: it is
\* skipped only when its topic has an entry whose key filter is not empty
\* and lacks the record's key.
WsSkipped(subsMap, m) ==
    /\ subsMap[m.topic].on
    /\ subsMap[m.topic].keys # {}
    /\ m.key \notin subsMap[m.topic].keys

WsInit ==
    /\ wsSubs = [tp \in WsTopics |-> NoWsSub]
    /\ wsByKey = {}
    /\ wsSubQ = [tp \in WsTopics |-> <<>>]
    /\ wsMux = <<>>
    /\ wsSent = <<>>
    /\ wsActions = 0
    /\ wsPublished = 0
    /\ wsOpen = TRUE

\* No connection.
WsIdle ==
    /\ wsSubs = [tp \in WsTopics |-> NoWsSub]
    /\ wsByKey = {}
    /\ wsSubQ = [tp \in WsTopics |-> <<>>]
    /\ wsMux = <<>>
    /\ wsSent = <<>>
    /\ wsActions = 0
    /\ wsPublished = 0
    /\ wsOpen = FALSE

\* The action "subscribe": handle_ws_subscribe.  A topic without an entry is
\* subscribed and gets a forwarding task and an empty key filter; a key
\* named is added to the filter; with history a snapshot is sent.
WsSubscribe(tp, ky, subOk, history) ==
    /\ wsOpen
    /\ wsActions < MaxWsActions
    /\ wsActions' = wsActions + 1
    /\ IF ~wsSubs[tp].on /\ ~subOk
       THEN /\ wsSent' = Append(wsSent, [type |-> "error", topic |-> tp,
                                         key |-> ky])
            /\ UNCHANGED <<wsSubs, wsByKey>>
       ELSE /\ wsSubs' = [wsSubs EXCEPT ![tp] =
                            [on |-> TRUE,
                             keys |-> IF ky # NoWsKey THEN @.keys \cup {ky}
                                      ELSE @.keys]]
            /\ wsByKey' = IF ky # NoWsKey THEN wsByKey \cup {tp} ELSE wsByKey
            /\ wsSent' = IF history
                         THEN Append(wsSent, [type |-> "snapshot",
                                              topic |-> tp, key |-> ky])
                         ELSE wsSent
    /\ UNCHANGED <<wsSubQ, wsMux, wsPublished, wsOpen>>
    /\ UNCHANGED OtherThanWs

\* The action "unsubscribe": without a key the entry is removed and its
\* task aborted, the Subscription going with it; with a key the key leaves
\* the filter.
WsUnsubscribe(tp, ky) ==
    /\ wsOpen
    /\ wsActions < MaxWsActions
    /\ wsActions' = wsActions + 1
    /\ IF ~wsSubs[tp].on
       THEN UNCHANGED <<wsSubs, wsByKey, wsSubQ>>
       ELSE IF ky = NoWsKey
       THEN /\ wsSubs' = [wsSubs EXCEPT ![tp] = NoWsSub]
            /\ wsByKey' = wsByKey \ {tp}
            /\ wsSubQ' = [wsSubQ EXCEPT ![tp] = <<>>]
       ELSE /\ wsSubs' = [wsSubs EXCEPT ![tp].keys = @ \ {ky}]
            /\ UNCHANGED <<wsByKey, wsSubQ>>
    /\ UNCHANGED <<wsMux, wsSent, wsPublished, wsOpen>>
    /\ UNCHANGED OtherThanWs

\* A record with this key is published to the topic: it reaches the
\* Subscription of the connection when the topic has one.
WsPublish(tp, ky) ==
    /\ wsPublished < MaxWsRecords
    /\ wsPublished' = wsPublished + 1
    /\ wsSubQ' = IF wsSubs[tp].on /\ wsOpen
                 THEN [wsSubQ EXCEPT ![tp] = Append(@, ky)]
                 ELSE wsSubQ
    /\ UNCHANGED <<wsSubs, wsByKey, wsMux, wsSent, wsActions, wsOpen>>
    /\ UNCHANGED OtherThanWs

\* The task of a subscription: sub.recv, then tx.send into the mux channel.
WsForward(tp) ==
    /\ wsSubQ[tp] # <<>>
    /\ Len(wsMux) < WsBuffer
    /\ wsMux' = Append(wsMux, [topic |-> tp, key |-> Head(wsSubQ[tp])])
    /\ wsSubQ' = [wsSubQ EXCEPT ![tp] = Tail(@)]
    /\ UNCHANGED <<wsSubs, wsByKey, wsSent, wsActions, wsPublished, wsOpen>>
    /\ UNCHANGED OtherThanWs

\* The branch of mux_rx.recv: the record is skipped or sent on the socket.
WsDeliver ==
    /\ wsOpen
    /\ wsMux # <<>>
    /\ wsMux' = Tail(wsMux)
    /\ wsSent' = IF WsSkipped(wsSubs, Head(wsMux)) THEN wsSent
                 ELSE Append(wsSent, [type |-> "record",
                                      topic |-> Head(wsMux).topic,
                                      key |-> Head(wsMux).key])
    /\ UNCHANGED <<wsSubs, wsByKey, wsSubQ, wsActions, wsPublished, wsOpen>>
    /\ UNCHANGED OtherThanWs

\* The socket closes or fails: the loop ends and every task is aborted.
WsClose ==
    /\ wsOpen
    /\ wsOpen' = FALSE
    /\ wsSubs' = [tp \in WsTopics |-> NoWsSub]
    /\ wsByKey' = {}
    /\ wsSubQ' = [tp \in WsTopics |-> <<>>]
    /\ wsMux' = <<>>
    /\ UNCHANGED <<wsSent, wsActions, wsPublished>>
    /\ UNCHANGED OtherThanWs

WsNext ==
    \/ \E tp \in WsTopics, ky \in WsKeys \cup {NoWsKey}, subOk, history \in BOOLEAN :
          WsSubscribe(tp, ky, subOk, history)
    \/ \E tp \in WsTopics, ky \in WsKeys \cup {NoWsKey} : WsUnsubscribe(tp, ky)
    \/ \E tp \in WsTopics, ky \in WsKeys : WsPublish(tp, ky)
    \/ \E tp \in WsTopics : WsForward(tp)
    \/ WsDeliver
    \/ WsClose

\* No endpoint, processor or storage of the pipeline models.
PipeIdle ==
    SinkIdle /\ SourceIdle /\ TasksIdle /\ ConfigIdle /\ ProcIdle
    /\ StoreIdle /\ LinesIdle
    /\ PassIdle /\ MergeIdle /\ FanIdle /\ ReaderIdle /\ RespawnIdle
    /\ WsIdle

\* Nothing loaded, decoded or sent.
AuxIdle == PluginIdle /\ DecodeIdle /\ WireIdle /\ PipeIdle

\* ------------------------------------------------------------------------
\* Specifications
\* ------------------------------------------------------------------------

Init == TopicInit /\ EngineIdle /\ SaveInit /\ AuxIdle

Next == TopicNext

Spec == Init /\ [][Next]_vars

\* A registry and its callers.
RegistryNext == \E tc \in TopicConfigs : Register(tc)

RegistrySpec == Init /\ [][RegistryNext]_vars

\* The engine after bootstrap, and its reloads.
EngineNext == \E cfg \in Configs : Reload(cfg)

\* The process once Engine::bootstrap has returned its engine.
BootInit == TopicInit /\ EngineInit /\ SaveInit /\ AuxIdle

EngineSpec == BootInit /\ [][EngineNext]_vars

\* A plugin file is loaded by one of the hosts, and its handle dropped.
LoadInit ==
    /\ TopicInit /\ EngineIdle /\ SaveInit
    /\ PluginInit /\ DecodeIdle /\ WireIdle /\ PipeIdle

LoadSpec == LoadInit /\ [][PluginNext]_vars

\* A config subtree is decoded against declared parameters.
DecodeSpecInit ==
    /\ TopicInit /\ EngineIdle /\ SaveInit
    /\ PluginIdle /\ DecodeInit /\ WireIdle /\ PipeIdle

DecodeSpec == DecodeSpecInit /\ [][DecodeNext]_vars

\* A payload goes through encode_to_wire and back through decode_frame.
WireSpecInit ==
    /\ TopicInit /\ EngineIdle /\ SaveInit
    /\ PluginIdle /\ DecodeIdle /\ WireInit /\ PipeIdle

WireSpec == WireSpecInit /\ [][WireNext]_vars

\* A sink connection writes the records it receives.
SinkSpecInit ==
    /\ TopicInit /\ EngineIdle /\ SaveInit
    /\ PluginIdle /\ DecodeIdle /\ WireIdle
    /\ SinkInit /\ SourceIdle /\ TasksIdle /\ ConfigIdle /\ ProcIdle
    /\ StoreIdle /\ LinesIdle
    /\ PassIdle /\ MergeIdle /\ FanIdle /\ ReaderIdle /\ RespawnIdle
    /\ WsIdle

SinkSpec == SinkSpecInit /\ [][SinkNext]_vars

\* A source connection reads what its peer sends.
SourceSpecInit ==
    /\ TopicInit /\ EngineIdle /\ SaveInit
    /\ PluginIdle /\ DecodeIdle /\ WireIdle
    /\ SinkIdle /\ SourceInit /\ TasksIdle /\ ConfigIdle /\ ProcIdle
    /\ StoreIdle /\ LinesIdle
    /\ PassIdle /\ MergeIdle /\ FanIdle /\ ReaderIdle /\ RespawnIdle
    /\ WsIdle

SourceSpec == SourceSpecInit /\ [][SourceNext]_vars

\* The tasks and threads of one pipeline endpoint, and the shutdown of the
\* server.
TasksSpecInit ==
    /\ TopicInit /\ EngineIdle /\ SaveInit
    /\ PluginIdle /\ DecodeIdle /\ WireIdle
    /\ SinkIdle /\ SourceIdle /\ TasksInit /\ ConfigIdle /\ ProcIdle
    /\ StoreIdle /\ LinesIdle
    /\ PassIdle /\ MergeIdle /\ FanIdle /\ ReaderIdle /\ RespawnIdle
    /\ WsIdle

TasksSpec == TasksSpecInit /\ [][TasksNext]_vars

\* The server bootstrap goes through the entries of its config.
ConfigSpecInit ==
    /\ TopicInit /\ EngineIdle /\ SaveInit
    /\ PluginIdle /\ DecodeIdle /\ WireIdle
    /\ SinkIdle /\ SourceIdle /\ TasksIdle /\ ConfigInit /\ ProcIdle
    /\ StoreIdle /\ LinesIdle
    /\ PassIdle /\ MergeIdle /\ FanIdle /\ ReaderIdle /\ RespawnIdle
    /\ WsIdle

ConfigSpec == ConfigSpecInit /\ [][ConfigNext]_vars

\* A processor task handles the records of its trigger topic.
ProcSpecInit ==
    /\ TopicInit /\ EngineIdle /\ SaveInit
    /\ PluginIdle /\ DecodeIdle /\ WireIdle
    /\ SinkIdle /\ SourceIdle /\ TasksIdle /\ ConfigIdle /\ ProcInit
    /\ StoreIdle /\ LinesIdle
    /\ PassIdle /\ MergeIdle /\ FanIdle /\ ReaderIdle /\ RespawnIdle
    /\ WsIdle

ProcSpec == ProcSpecInit /\ [][ProcNext]_vars

\* A storage backend is saved to and queried.
QuerySpecInit ==
    /\ TopicInit /\ EngineIdle /\ SaveInit
    /\ PluginIdle /\ DecodeIdle /\ WireIdle
    /\ SinkIdle /\ SourceIdle /\ TasksIdle /\ ConfigIdle /\ ProcIdle
    /\ StoreInit /\ LinesIdle
    /\ PassIdle /\ MergeIdle /\ FanIdle /\ ReaderIdle /\ RespawnIdle
    /\ WsIdle

QuerySpec == QuerySpecInit /\ [][StoreNext]_vars

\* A payload goes through encode and decode of the lines framing.
FramingSpecInit ==
    /\ TopicInit /\ EngineIdle /\ SaveInit
    /\ PluginIdle /\ DecodeIdle /\ WireIdle
    /\ SinkIdle /\ SourceIdle /\ TasksIdle /\ ConfigIdle /\ ProcIdle
    /\ StoreIdle /\ LinesInit
    /\ PassIdle /\ MergeIdle /\ FanIdle /\ ReaderIdle /\ RespawnIdle
    /\ WsIdle

FramingSpec == FramingSpecInit /\ [][LinesNext]_vars

\* One pass of Topic::publish over a list of subscribers.
PassSpecInit ==
    /\ TopicInit /\ EngineIdle /\ SaveInit
    /\ PluginIdle /\ DecodeIdle /\ WireIdle
    /\ SinkIdle /\ SourceIdle /\ TasksIdle /\ ConfigIdle /\ ProcIdle
    /\ StoreIdle /\ LinesIdle
    /\ MergeIdle /\ FanIdle /\ ReaderIdle /\ RespawnIdle /\ WsIdle
    /\ PassInit

PassSpec == PassSpecInit /\ [][PassNext]_vars

\* A pipeline sink forwards the records of its topics to the broadcast.
MergeSpecInit ==
    /\ TopicInit /\ EngineIdle /\ SaveInit
    /\ PluginIdle /\ DecodeIdle /\ WireIdle
    /\ SinkIdle /\ SourceIdle /\ TasksIdle /\ ConfigIdle /\ ProcIdle
    /\ StoreIdle /\ LinesIdle
    /\ FanIdle /\ ReaderIdle /\ RespawnIdle /\ WsIdle
    /\ PassIdle /\ MergeInit

MergeSpec == MergeSpecInit /\ [][MergeNext]_vars

\* A connection of a pipeline sink is accepted while records are fed.
FanSpecInit ==
    /\ TopicInit /\ EngineIdle /\ SaveInit
    /\ PluginIdle /\ DecodeIdle /\ WireIdle
    /\ SinkIdle /\ SourceIdle /\ TasksIdle /\ ConfigIdle /\ ProcIdle
    /\ StoreIdle /\ LinesIdle
    /\ ReaderIdle /\ RespawnIdle /\ WsIdle
    /\ PassIdle /\ MergeIdle /\ FanInit

FanSpec == FanSpecInit /\ [][FanNext]_vars

\* A reader of a topic calls recv while records are saved.
ReaderSpecInit ==
    /\ TopicInit /\ EngineIdle /\ SaveInit
    /\ PluginIdle /\ DecodeIdle /\ WireIdle
    /\ SinkIdle /\ SourceIdle /\ TasksIdle /\ ConfigIdle /\ ProcIdle
    /\ StoreIdle /\ LinesIdle
    /\ RespawnIdle /\ WsIdle
    /\ PassIdle /\ MergeIdle /\ FanIdle /\ ReaderInit

ReaderSpec == ReaderSpecInit /\ [][ReaderNext]_vars

\* The same, with the runtime polling the future of recv: a read that can
\* be made is made, and a waiting recv with a signal at hand wakes up.
ReaderLiveSpec ==
    /\ ReaderSpecInit
    /\ [][ReaderNext]_vars
    /\ WF_vars(RecvRead(TRUE))
    /\ WF_vars(RecvWake)

\* An engine whose processors are reloaded.
RespawnSpecInit ==
    /\ TopicInit /\ EngineIdle /\ SaveInit
    /\ PluginIdle /\ DecodeIdle /\ WireIdle
    /\ SinkIdle /\ SourceIdle /\ TasksIdle /\ ConfigIdle /\ ProcIdle
    /\ StoreIdle /\ LinesIdle
    /\ WsIdle
    /\ PassIdle /\ MergeIdle /\ FanIdle /\ ReaderIdle /\ RespawnInit

RespawnSpec == RespawnSpecInit /\ [][RespawnNext]_vars

\* A WebSocket client subscribes and unsubscribes while records are
\* published.
WsSpecInit ==
    /\ TopicInit /\ EngineIdle /\ SaveInit
    /\ PluginIdle /\ DecodeIdle /\ WireIdle
    /\ SinkIdle /\ SourceIdle /\ TasksIdle /\ ConfigIdle /\ ProcIdle
    /\ StoreIdle /\ LinesIdle
    /\ PassIdle /\ MergeIdle /\ FanIdle /\ ReaderIdle /\ RespawnIdle
    /\ WsInit

WsSpec == WsSpecInit /\ [][WsNext]_vars

\* The same topic with a single caller of publish: its calls follow one
\* another in program order, so record ids grow in publish order.
OnePublisherNext ==
    \/ \E b \in 1..MaxBuffer, o \in Policies : Subscribe(b, o)
    \/ \E ok \in BOOLEAN : PublishSave(1, ok)
    \/ PublishLock(1)
    \/ PublishIter(1)
    \/ PublishDone(1)
    \/ \E t \in tasks : SendTask(t)
    \/ \E s \in SubIds : Recv(s)
    \/ \E s \in SubIds : DropRx(s)

OnePublisherSpec == Init /\ [][OnePublisherNext]_vars

\* One caller of publish on a topic-engine topic and the callers of save on
\* a gauss-engine topic.
SaveNext ==
    \/ OnePublisherNext
    \/ \E ok \in BOOLEAN : TopicSave(ok)

SaveSpec == Init /\ [][SaveNext]_vars

\* The runtime polls a publish call that can go on: the lock is granted
\* when free and the loop runs to its end.
FairPublish == WF_vars(PublishLock(1) \/ PublishIter(1) \/ PublishDone(1))

\* The runtime polls the detached send tasks.
FairTasks == WF_vars(\E t \in tasks : SendTask(t))

\* Subscribers keep calling recv.
FairRecv == WF_vars(\E s \in SubIds : Recv(s))

\* Publish calls that are polled, whatever the subscribers do: they may
\* read, stop reading for good, or drop their subscription.
NonBlockingSpec == Init /\ [][OnePublisherNext]_vars /\ FairPublish

\* Back-pressure subscribers that keep their subscription.
KeepReadingNext ==
    \/ \E b \in 1..MaxBuffer : Subscribe(b, "BackPressure")
    \/ \E ok \in BOOLEAN : PublishSave(1, ok)
    \/ PublishLock(1)
    \/ PublishIter(1)
    \/ PublishDone(1)
    \/ \E t \in tasks : SendTask(t)
    \/ \E s \in SubIds : Recv(s)

\* Fair scheduling of the send tasks, and subscribers that keep reading.
LiveSpec ==
    Init /\ [][KeepReadingNext]_vars /\ FairPublish /\ FairTasks /\ FairRecv

\* ------------------------------------------------------------------------
\* Properties
\* ------------------------------------------------------------------------

\* s yielded record a and, later, record b.
YieldedBefore(s, a, b) ==
    \E j, k \in 1..Len(received[s]) :
        j < k /\ received[s][j] = a /\ received[s][k] = b

\* C1: of two records published one after the other by the same publisher,
\* every subscriber that receives both receives the earlier one first
\* (checked with a single publisher, whose record ids grow in publish order).
C1_PublishOrderPerSubscriber ==
    \A s \in SubIds : \A a, b \in 1..MaxRecords :
        YieldedBefore(s, a, b) => a < b

\* C2: save order equals delivery order: a subscriber that receives two
\* records receives them in the order storage saved them.  Stated for the
\* drop subscribers, whose sends are made by the publish call itself.
C2_SaveOrderIsDeliveryOrder ==
    \A s \in SubIds : \A a, b \in 1..MaxRecords :
        (overflow[s] = "Drop" /\ YieldedBefore(s, a, b))
            => IndexOf(saved, a) < IndexOf(saved, b)

\* C3: a subscription never yields a record whose save had completed when
\* the subscribe call was made.
C3_NoRecordSavedBeforeSubscribe ==
    \A s \in SubIds : Range(received[s]) \cap savedAtSub[s] = {}

\* A publish call of p returned in this step.
Returned(p) == pc[p] # "idle" /\ pc'[p] = "idle"

\* C7 (state part): a subscriber's queue never holds more than its buffer.
QueueWithinBuffer == \A s \in SubIds : Len(queue[s]) <= buffer[s]

\* The publish loop of p is at a live drop subscriber whose channel is full.
AtFullDropSubscriber(p) ==
    /\ pc[p] = "iter"
    /\ lock = p
    /\ i <= Len(subs)
    /\ overflow[subs[i]] = "Drop"
    /\ subState[subs[i]] = "live"
    /\ Len(queue[subs[i]]) = buffer[subs[i]]

\* C7 (step part): the iteration at a full drop subscriber queues nothing,
\* keeps the subscriber list and moves on to the next subscriber.
FullDropStep ==
    \A p \in Publishers :
        (AtFullDropSubscriber(p) /\ (i' # i \/ subs' # subs))
            => /\ subs' = subs
               /\ queue' = queue
               /\ tasks' = tasks
               /\ i' = i + 1
               /\ pc'[p] = "iter"

\* C7 (result part): a publish whose save succeeded returns Ok.
NotifyReturnsOk ==
    \A p \in Publishers : (pc[p] = "iter" /\ Returned(p)) => result'[p] = "Ok"

\* C7: for a drop subscriber publish sends without blocking: on a full
\* channel the record is discarded for that subscriber only, the subscriber
\* stays registered, its queue never exceeds its buffer, the loop goes on to
\* the remaining subscribers and publish returns Ok.
C7_DropOnFull ==
    /\ []QueueWithinBuffer
    /\ [][FullDropStep]_vars
    /\ [][NotifyReturnsOk]_vars

\* C7 witness: a publish pass has gone past a live drop subscriber whose
\* channel is full and which did not get the record.
C7_Witness ==
    \E p \in Publishers :
        /\ pc[p] = "iter"
        /\ i > 1
        /\ LET s == subs[i - 1] IN
             /\ overflow[s] = "Drop"
             /\ subState[s] = "live"
             /\ Len(queue[s]) = buffer[s]
             /\ rec[p] \notin Range(queue[s])
             /\ rec[p] \notin Range(received[s])

\* C5: a back-pressure subscriber that keeps reading eventually receives
\* every record a publish pass handed to a send task for it, however long it
\* had stopped reading: none is dropped.
C5_BackPressureLosesNothing ==
    \A s \in SubIds, r \in 1..MaxRecords :
        ([sub |-> s, rec |-> r] \in tasks) ~> (r \in Range(received[s]))

\* C5 witness: a back-pressure subscriber has received every published
\* record, more of them than its buffer holds.
C5_Witness ==
    \E s \in SubIds :
        /\ overflow[s] = "BackPressure"
        /\ subState[s] = "live"
        /\ Len(saved) = MaxRecords
        /\ received[s] = saved
        /\ Len(received[s]) > buffer[s]

\* The publish loop of p is at a live drop subscriber whose channel has room.
AtDropSubscriberWithRoom(p) ==
    /\ pc[p] = "iter"
    /\ lock = p
    /\ i <= Len(subs)
    /\ overflow[subs[i]] = "Drop"
    /\ subState[subs[i]] = "live"
    /\ Len(queue[subs[i]]) < buffer[subs[i]]

\* C6 (step part): the iteration at a drop subscriber with room queues the
\* record, whatever the channels of the other subscribers hold.
OthersServed ==
    \A p \in Publishers :
        (AtDropSubscriberWithRoom(p) /\ (i' # i \/ subs' # subs))
            => queue'[subs[i]] = Append(queue[subs[i]], rec[p])

\* C6: publish never waits for a receiver: a call whose save succeeded runs
\* to completion and returns Ok even when a back-pressure subscriber's channel
\* is full and never read, and the other subscribers still get the record.
C6_PublishNeverWaits ==
    /\ \A p \in Publishers :
          (pc[p] = "lock") ~> (pc[p] = "idle" /\ result[p] = "Ok")
    /\ [][OthersServed]_vars

\* C6 witness: publish has returned Ok for a record that a back-pressure
\* subscriber with a full, unread channel has not taken, and that a drop
\* subscriber behind it has in its queue.
C6_Witness ==
    \E p \in Publishers, s, d \in SubIds :
        /\ pc[p] = "idle" /\ result[p] = "Ok"
        /\ overflow[s] = "BackPressure" /\ subState[s] = "live"
        /\ received[s] = <<>>
        /\ Len(queue[s]) = buffer[s]
        /\ [sub |-> s, rec |-> rec[p]] \in tasks
        /\ overflow[d] = "Drop" /\ subState[d] = "live"
        /\ IndexOf(subs, s) < IndexOf(subs, d)
        /\ rec[p] \in Range(queue[d])

\* C4 (state part): a record whose save failed is in no subscriber channel,
\* was yielded by no subscription and is carried by no send task, and the
\* gauss-engine topic has broadcast one notification per stored record.
FailedNeverNotified ==
    /\ \A r \in Failed : \A s \in SubIds :
          /\ r \notin Range(queue[s])
          /\ r \notin Range(received[s])
          /\ [sub |-> s, rec |-> r] \notin tasks
    /\ notified = Len(stored)

\* C4 (publish step): the publish call whose storage.save fails returns the
\* error at once and leaves the subscriber list and every channel as they were.
PublishErrorStep ==
    \A p \in Publishers :
        (pc[p] = "idle" /\ rec'[p] = nextRec /\ nextRec' = nextRec + 1
                        /\ saved' = saved)
            => /\ pc'[p] = "idle"
               /\ result'[p] = "Err"
               /\ UNCHANGED <<subs, subState, queue, received, tasks, lock>>

\* C4 (save step): the save call whose storage.save fails returns the error
\* and broadcasts nothing.
SaveErrorStep ==
    (rec' = rec /\ nextRec' = nextRec + 1 /\ stored' = stored)
        => (saveResult' = "Err" /\ notified' = notified)

\* C4: when storage.save returns an error, publish (and save) return it and
\* no subscriber is notified: no channel receives the record, no notification
\* is broadcast, the subscriber list is unchanged.
C4_NoNotifyOnSaveError ==
    /\ []FailedNeverNotified
    /\ [][PublishErrorStep]_vars
    /\ [][SaveErrorStep]_vars

\* C4 witness: with a live subscriber, a publish call has returned Err for a
\* record that was not saved, and a save call has returned Err.
C4_Witness ==
    /\ pc[1] = "idle" /\ result[1] = "Err" /\ rec[1] \in Failed
    /\ \E s \in SubIds : subState[s] = "live" /\ s \in Range(subs)
    /\ saveResult = "Err"
    /\ Failed \ {rec[1]} # {}

\* C8: a register call for a name the registry already has is rejected: the
\* Topic registered first stays and is the one lookups return.
C8_DuplicateRegisterRejected ==
    [][\A n \in TopicNames :
          RegistryGet(registry, n) # NoTopic
              => RegistryGet(registry', n) = RegistryGet(registry, n)]_vars

\* C9: after bootstrap and any sequence of reloads, the storage instance
\* behind every registered topic name is the one first registered under it.
C9_StorageIdentityKept ==
    \A n \in TopicNames :
        RegistryGet(registry, n) # NoTopic => RegistryGet(registry, n).inst = 1

\* The reload made in this step was given a config that omits a topic of
\* the live config.
OmittingReload ==
    /\ reloads' = reloads + 1
    /\ \E k \in 1..Len(config.topics) :
          \A j \in 1..Len(reloadTopics') :
              reloadTopics'[j].name # config.topics[k].name

\* C10 (step): such a reload returns the error and changes nothing of the
\* engine.
OmittingReloadStep ==
    OmittingReload
        => /\ lastReload' = "deleted"
           /\ UNCHANGED <<registry, created, processors, running, spawned,
                          config>>

\* C10: a reload whose new config omits a topic of the live config returns
\* an error and leaves the registry, the storage parameters, the running
\* processor tasks and the live config exactly as they were.
C10_ReloadOmittingTopicChangesNothing == [][OmittingReloadStep]_vars

\* C10 witness: a reload was refused for a deleted topic while the engine
\* had topics registered and a processor running.
C10_Witness ==
    /\ lastReload = "deleted"
    /\ running # {}
    /\ \E n \in TopicNames : RegistryGet(registry, n) # NoTopic

\* The reload made in this step was given a config that changes the storage
\* plugin path of topic n of the live config.
PathChangingReload(n) ==
    /\ reloads' = reloads + 1
    /\ \E k \in 1..Len(config.topics), j \in 1..Len(reloadTopics') :
          /\ config.topics[k].name = n
          /\ reloadTopics'[j].name = n
          /\ reloadTopics'[j].storage # config.topics[k].storage

\* C11: a reload whose config changes the storage plugin path of an existing
\* topic fails; the topic keeps its storage and the live config still names
\* the original plugin.
C11_PathChangeRejected ==
    [][\A n \in TopicNames :
          PathChangingReload(n)
              => /\ lastReload' # "Ok"
                 /\ config' = config
                 /\ RegistryGet(registry', n) = RegistryGet(registry, n)]_vars

\* The reload made in this step was given, for topic n of the live config, a
\* storage_config whose postmaster parameter differs from the live one.
PostmasterChangingReload(n) ==
    /\ reloads' = reloads + 1
    /\ \E k \in 1..Len(config.topics), j \in 1..Len(reloadTopics') :
          /\ config.topics[k].name = n
          /\ reloadTopics'[j].name = n
          /\ reloadTopics'[j].storage_config.pm # config.topics[k].storage_config.pm

\* The reload made in this step fails before its loop over the existing
\* topics: a topic is deleted, or a new topic cannot be created.
FailsBeforeExistingTopics == lastReload' \in {"deleted", "create"}

\* C12 (step): a postmaster change fails the reload, with 'requires restart'
\* when the plugin path is the same, and reconfigure is not called for the
\* topic; every reconfigure call of a reload is for a topic whose postmaster
\* parameter is equal in the old and the new values.
PostmasterFrozenStep ==
    /\ \A n \in TopicNames :
          PostmasterChangingReload(n)
              => /\ lastReload' # "Ok"
                 /\ \A c \in reconfigured' : c.topic # n
                 /\ RegistryGet(registry', n).params = RegistryGet(registry, n).params
                 /\ FailsBeforeExistingTopics
                        \/ lastReload' \in {"path_changed", "requires_restart"}
                 /\ lastReload' = "path_changed"
                        => \E k \in 1..Len(config.topics), j \in 1..Len(reloadTopics') :
                              /\ config.topics[k].name = reloadTopics'[j].name
                              /\ config.topics[k].storage # reloadTopics'[j].storage
    /\ reloads' = reloads + 1
          => \A c \in reconfigured' :
                \E k \in 1..Len(config.topics) :
                    /\ config.topics[k].name = c.topic
                    /\ config.topics[k].storage_config.pm = c.values.pm
                    /\ config.topics[k].storage_config # c.values

\* C12: on reload of an existing topic whose storage_config changed, a
\* postmaster parameter with different old and new values fails the reload
\* with 'requires restart' and storage.reconfigure is never called for that
\* topic; reconfigure is called only when the postmaster parameters are equal.
C12_PostmasterChangeRequiresRestart == [][PostmasterFrozenStep]_vars

\* C12 witness: a reload was refused with 'requires restart' for a topic whose
\* postmaster parameter it changed; no reconfigure call was made and the
\* topic's storage has the parameters of the live config.
C12_Witness ==
    /\ lastReload = "requires_restart"
    /\ reconfigured = {}
    /\ \E k \in 1..Len(config.topics), j \in 1..Len(reloadTopics) :
          /\ config.topics[k].name = reloadTopics[j].name
          /\ config.topics[k].storage_config.pm # reloadTopics[j].storage_config.pm
          /\ RegistryGet(registry, config.topics[k].name).params
                = config.topics[k].storage_config

\* C13: a reload that returns an error leaves the engine running with the
\* previous configuration: every processor task running before the call is
\* still running, and the live config is the one before the call.
C13_FailedReloadKeepsProcessors ==
    [][(reloads' = reloads + 1 /\ lastReload' # "Ok")
          => (running \subseteq running' /\ config' = config)]_vars

\* The reload made in this step succeeded with a config that is the live one
\* plus the new topic c at the end of its topics.
AddingReload(c) ==
    /\ reloads' = reloads + 1
    /\ lastReload' = "Ok"
    /\ \A k \in 1..Len(config.topics) : config.topics[k].name # c.name
    /\ reloadTopics' = Append(config.topics, c)
    /\ config'.processors = config.processors

\* C14: a reload whose only change is a new topic registers it and leaves
\* the topics of the registry untouched: every Topic registered before the
\* call is the one registered after it, so that saves through the registry
\* still reach the readers attached to it, and no processor is touched.
C14_AddingTopicKeepsExisting ==
    [][\A c \in TopicConfigs :
          AddingReload(c)
              => /\ RegistryGet(registry', c.name) # NoTopic
                 /\ \A n \in TopicNames :
                       RegistryGet(registry, n) # NoTopic
                           => RegistryGet(registry', n) = RegistryGet(registry, n)
                 /\ running' = running
                 /\ processors' = processors]_vars

\* Names of the processors a config lists.
ProcessorNames == {"P"}

\* The slots of processor p in a list of slots.
SlotsOf(slots, p) == {s \in Range(slots) : s.name = p}

\* C15 (step): in a successful reload, a processor listed with the same
\* configuration before and after keeps its slot and its task, and nothing is
\* spawned for it; one listed with a different configuration has its old task
\* stopped and a new instance spawned and running.
KeepOrRespawnStep ==
    (reloads' = reloads + 1 /\ lastReload' = "Ok")
        => \A p \in ProcessorNames :
             \A j \in 1..Len(config.processors), k \in 1..Len(config'.processors) :
                (config.processors[j].name = p /\ config'.processors[k].name = p)
                    => IF config.processors[j] = config'.processors[k]
                       THEN /\ SlotsOf(processors', p) = SlotsOf(processors, p)
                            /\ SlotsOf(processors, p) \cap running
                                  = SlotsOf(processors', p) \cap running'
                            /\ spawned'[p] = spawned[p]
                       ELSE /\ SlotsOf(processors, p) \cap running' = {}
                            /\ spawned'[p] = spawned[p] + 1
                            /\ SlotsOf(processors', p)
                                  = {[name |-> p, inst |-> spawned'[p]]}
                            /\ SlotsOf(processors', p) \subseteq running'

C16_RunningMatchesConfig ==
    lastReload = "Ok"
        => /\ \A k \in 1..Len(config.processors) :
                 \E s \in running :
                    SlotsOf(processors, config.processors[k].name) = {s}
           /\ \A s \in running :
                 /\ s \in Range(processors)
                 /\ \E k \in 1..Len(config.processors) :
                       config.processors[k].name = s.name

\* ------------------------------------------------------------------------
\* C17: in both load paths the host calls qs_abi_version and compares the
\* result with its own constant before the create symbol is resolved or
\* invoked; when the versions differ the load fails and create is never
\* invoked for that plugin.
\* ------------------------------------------------------------------------
C17_AbiCheckedBeforeCreate ==
    /\ (createResolved \/ createInvoked) =>
          (abiCalled /\ plugin.abi = HostAbi(host))
    /\ (abiCalled /\ plugin.abi # HostAbi(host)) =>
          /\ loadPc = "failed"
          /\ ~createResolved
          /\ ~createInvoked
          /\ object = "none"

\* A plugin of another ABI version that exports a working create function
\* was rejected by the version check.
C17_Witness ==
    /\ loadPc = "failed"
    /\ abiCalled
    /\ plugin.abi # HostAbi(host)
    /\ plugin.exports = Symbols
    /\ plugin.create = "object"
    /\ plugin.config_ok
    /\ ~createInvoked

\* ------------------------------------------------------------------------
\* C18: the plugin object is destroyed before the library reference it came
\* from is released: no library is released while an object created from it
\* is alive, and a dropped handle has destroyed its object.
\* ------------------------------------------------------------------------
C18_ObjectDestroyedBeforeLibraryReleased ==
    /\ object = "alive" => libRefs > 0
    /\ loadPc = "dropping" => (object = "destroyed" /\ libRefs > 0)
    /\ loadPc = "dropped" => object = "destroyed"

\* A wrapper in the middle of its drop: the object is gone, the library is
\* still loaded.
C18_Witness ==
    /\ host = "plugin-host"
    /\ loadPc = "dropping"
    /\ object = "destroyed"
    /\ libRefs = 1

\* ------------------------------------------------------------------------
\* C19: decoding a config subtree against the declared parameters
\* ------------------------------------------------------------------------

\* The subtree holds a value under this key.
Supplied(key) == subtree.kind = "table" /\ subtree.entries[key] # NoValue

\* The TOML type of the value is the declared type.
TypeMatches(v, type) ==
    \/ type = "Bool" /\ v.t = "Boolean"
    \/ type \in {"I64", "U64"} /\ v.t = "Integer"
    \/ type = "F64" /\ v.t = "Float"
    \/ type = "Str" /\ v.t = "String"

\* A value of the declared type, as a typed value.
Typed(v, type) == [t |-> type, n |-> v.n, s |-> v.s]

\* The value can be taken as the declared type: a boolean for Bool, an
\* integer for I64, a non-negative integer for U64, a float for F64,
\* anything for Str.
Convertible(v, type) ==
    \/ type = "Bool" /\ v.t = "Boolean"
    \/ type = "I64" /\ v.t = "Integer"
    \/ type = "U64" /\ v.t = "Integer" /\ v.n >= 0
    \/ type = "F64" /\ v.t = "Float"
    \/ type = "Str"

\* The value as the declared type; a Str parameter takes the text of the
\* value.
Converted(v, type) ==
    IF type = "Str" THEN [t |-> "Str", n |-> 0, s |-> FlattenTomlValue(v)]
    ELSE [t |-> type, n |-> v.n, s |-> v.s]

UndeclaredKey == \E key \in Keys : Supplied(key) /\ ~IsDeclared(declared, key)

RequiredMissing ==
    \E k \in 1..Len(declared) :
        /\ ~Supplied(declared[k].name)
        /\ declared[k].required
        /\ declared[k].default = "no"

\* C19 as stated: decoding fails iff the subtree has an undeclared key, or a
\* value whose type is not the declared type, or a required parameter that
\* is absent and has no default; otherwise the value map holds exactly the
\* supplied values plus the default of every absent parameter that has one.
C19_FailsIffUndeclaredMistypedOrMissing ==
    decoded.done =>
        LET mistyped == \E k \in 1..Len(declared) :
                           /\ Supplied(declared[k].name)
                           /\ ~TypeMatches(subtree.entries[declared[k].name],
                                           declared[k].param_type)
        IN /\ decoded.ok = ~(UndeclaredKey \/ mistyped \/ RequiredMissing)
           /\ decoded.ok =>
                \A key \in Keys :
                    decoded.values[key] =
                        IF ~IsDeclared(declared, key) THEN NoValue
                        ELSE IF Supplied(key)
                        THEN Typed(subtree.entries[key],
                                   ParamNamed(declared, key).param_type)
                        ELSE Default(ParamNamed(declared, key))

\* C19 amended: decoding fails iff the subtree is present and not a table,
\* or has an undeclared key, or a supplied value is not convertible to the
\* declared type (any value converts to Str), or a required parameter is
\* absent and has no default; otherwise the value map holds exactly the
\* converted supplied values plus the default of every absent parameter
\* that has one.
C19_FailsIffUndeclaredUnconvertibleOrMissing ==
    decoded.done =>
        LET unconvertible == \E k \in 1..Len(declared) :
                                /\ Supplied(declared[k].name)
                                /\ ~Convertible(subtree.entries[declared[k].name],
                                                declared[k].param_type)
        IN /\ decoded.ok = ~(\/ subtree.kind = "scalar"
                             \/ UndeclaredKey
                             \/ unconvertible
                             \/ RequiredMissing)
           /\ decoded.ok =>
                \A key \in Keys :
                    decoded.values[key] =
                        IF ~IsDeclared(declared, key) THEN NoValue
                        ELSE IF Supplied(key)
                        THEN Converted(subtree.entries[key],
                                       ParamNamed(declared, key).param_type)
                        ELSE Default(ParamNamed(declared, key))

\* A subtree that gives an integer to a Str parameter and leaves out a
\* parameter with a default was decoded.
C19_Witness ==
    /\ decoded.done
    /\ decoded.ok
    /\ Len(declared) = 2
    /\ declared[1].param_type = "Str"
    /\ subtree.kind = "table"
    /\ subtree.entries["a"] = [t |-> "Integer", n |-> 1, s |-> ""]
    /\ decoded.values["a"] = [t |-> "Str", n |-> 0, s |-> "1"]
    /\ subtree.entries["b"] = NoValue
    /\ declared[2].required
    /\ declared[2].default = "yes"
    /\ decoded.values["b"] = DefaultOf(declared[2].param_type)

\* ------------------------------------------------------------------------
\* C20: decode_frame folds the middleware list forward and encode_to_wire
\* folds it in reverse, so with middlewares whose decode undoes their
\* encode the decode chain gives back the bytes the encode chain was given.
\* ------------------------------------------------------------------------
C20_DecodeChainUndoesEncodeChain ==
    /\ encoded.state # "none" => encoded.state = "ok"
    /\ frameOut.state # "none" => frameOut = [state |-> "ok", bytes |-> payload]

\* A payload went through a chain of two different middlewares and back.
C20_Witness ==
    /\ frameOut.state = "ok"
    /\ Len(chain) = 2
    /\ chain[1] # chain[2]
    /\ "frame" \in {chain[1], chain[2]}
    /\ payload # <<>>
    /\ encoded.bytes # payload
    /\ frameOut.bytes = payload

\* ------------------------------------------------------------------------
\* C21: a sink that encodes a record whose format is the codec's own uses the
\* record's bytes and does not invoke codec.encode for it; the middleware
\* and the framing are still applied to those bytes.
\* ------------------------------------------------------------------------
C21_CodecEncodeSkippedForOwnFormat ==
    /\ \A k \in 1..Len(encodeCalls) : encodeCalls[k].format # sinkCodec
    /\ \A k \in 1..Len(written) :
          \E record \in SinkRecords :
              /\ record.format = sinkCodec
              /\ written[k] = LinesEncode(EncodeChain(sinkMw, record.bytes).bytes)

\* ------------------------------------------------------------------------
\* C22: while a source connection is handled, an error raised in the decode
\* chain (framing.decode, middleware.decode, codec.decode) ends the
\* connection if and only if its kind is not format: after a format error
\* the connection is open, after any other error it is closed.
\* ------------------------------------------------------------------------
C22_OnlyNonFormatErrorDisconnects ==
    srcError # NoError => (srcConn = "closed" <=> srcError.kind # "Format")

C25_NothingRunsAfterShutdown ==
    serve = "complete" =>
        /\ mainTask \in {"finished", "aborted"}
        /\ receiver = "finished"
        /\ acceptor = "stopped"
        /\ \A c \in Conns : workers[c] # "running"

\* ------------------------------------------------------------------------
\* C24: validate rejects a source or sink config iff it sets both plugin and
\* any of transport, framing, codec, or sets none of the four, or is in
\* pipeline mode with any one of transport, framing or codec missing; every
\* config it accepts is plugin-only or has all three.
\* ------------------------------------------------------------------------
C24_ValidateRejectsIncompletePipeline ==
    \A k \in 1..Len(validated) :
        LET c == validated[k].cfg
            anyOf == c.transport \/ c.framing \/ c.codec
            allOf == c.transport /\ c.framing /\ c.codec
        IN /\ ~validated[k].ok <=>
                 \/ c.plugin /\ anyOf
                 \/ ~c.plugin /\ ~anyOf
                 \/ ~c.plugin /\ anyOf /\ ~allOf
           /\ validated[k].ok =>
                 \/ c.plugin /\ ~anyOf
                 \/ ~c.plugin /\ allOf

\* ------------------------------------------------------------------------
\* C26: an error a processor returns while handling a record (a failed
\* write to its target topic included) never stops the processor's loop:
\* the task ends only when its input is closed or it is shut down, and
\* while records are left and the task was not shut down it is running.
\* ------------------------------------------------------------------------
C26_ProcessorErrorNeverStopsLoop ==
    /\ procPc \in {"running", "closed", "shutdown"}
    /\ procPc = "closed" => procIn = <<>>

\* Every record the backend holds, in any of its files or its buffer.
Held == UNION {{files[f][k] : k \in DOMAIN files[f]} : f \in FileNames}

\* The records a sequence holds.
RecordsOf(s) == {s[k] : k \in DOMAIN s}

\* The range the query names: the key if given, from_ms inclusive, to_ms
\* exclusive.
InRange(q, r) ==
    /\ q.key.some => r.key = q.key.v
    /\ q.from_ms.some => q.from_ms.v <= r.ts_ms
    /\ q.to_ms.some => r.ts_ms < q.to_ms.v

\* C27: a time-range query without limit returns exactly the stored records
\* with the key of the query and from_ms <= ts_ms < to_ms, on every backend; a
\* record whose ts_ms equals to_ms is never returned.
C27_QueryRangeFromInclusiveToExclusive ==
    (queryResult.done /\ ~lastQuery.limit.some)
        => RecordsOf(queryResult.records) = {r \in Held : InRange(lastQuery, r)}

\* C28: a query with a limit (TopicQuery carries no offset) returns the last
\* limit records of what the same query returns without the limit, on every
\* backend: the most recent matching records, never the oldest.
C28_LimitKeepsMostRecent ==
    (queryResult.done /\ lastQuery.limit.some)
        => queryResult.records =
               LastN(Query(backend, files, [lastQuery EXCEPT !.limit = NoInt]),
                     lastQuery.limit.v)

\* C29: an unfiltered query returns a record if and only if save returned Ok
\* for it: every record saved with Ok is among the results, and no other is.
C29_QueryObservesExactlySavedOk ==
    (queryResult.done /\ lastQuery = Unfiltered)
        => RecordsOf(queryResult.records) = RecordsOf(savedOk)

\* C30: with max_length = 0, decoding what encode wrote for a payload without
\* '\n' (the empty payload and payloads ending in '\r' included) gives the
\* payload back and consumes the whole encoded buffer.
C30_LinesDecodeUndoesEncode ==
    (linePc = "decoded" /\ lineMax = 0 /\ lineWire # <<>>)
        => /\ lineOut.state = "frame"
           /\ lineOut.frame = lineX
           /\ lineOut.consumed = Len(lineWire)

\* C31: after a connection of a running endpoint died, the acceptor is still
\* there to call next_connection again and bring a replacement, whatever the
\* transport (a stopped acceptor never calls next_connection again).
C31_AcceptorOutlivesDeadConnection ==
    (died # {} /\ ~token) => acceptor # "stopped"

\* How often the pass handed the record to subscriber s.
AttemptsOn(s) == Cardinality({k \in DOMAIN passAttempts : passAttempts[k] = s})

\* C32: when a publish pass is over, the list holds no subscriber whose
\* receiver was dropped before the pass began, every subscriber that stayed
\* live was handed the record exactly once, and none was handed it twice.
C32_PassReapsClosedAndVisitsLiveOnce ==
    /\ \A s \in PassIds : AttemptsOn(s) <= 1
    /\ passPc = "done" =>
          /\ Range(passSubs) \cap passClosedAtStart = {}
          /\ \A s \in Range(passSubs) \ passClosed : AttemptsOn(s) = 1

\* A pass that removed subscriber 1, closed before it began, from a list of
\* three and ended having handed the record to both others.
C32_Witness ==
    /\ passPc = "done"
    /\ passSubs = <<3, 2>>
    /\ passClosedAtStart = {1}
    /\ passClosed = {1}
    /\ passAttempts = <<3, 2>>

\* C33: for each topic of a pipeline sink, the records of that topic reach
\* the broadcast in the order the topic's subscription yielded them; how the
\* topics interleave is not constrained.
C33_MergeKeepsPerTopicOrder ==
    \A j, k \in DOMAIN bcast :
        (j < k /\ bcast[j].topic = bcast[k].topic) => bcast[j].n < bcast[k].n

\* Two topics merged out of global order: the second record of topic 2
\* reached the broadcast before the first record of topic 1.
C33_Witness ==
    /\ Len(bcast) >= 3
    /\ bcast[1] = [topic |-> 2, n |-> 1]
    /\ bcast[2] = [topic |-> 2, n |-> 2]
    /\ bcast[3] = [topic |-> 1, n |-> 1]

\* C34: a record fed to the broadcast after the transport accepted the
\* connection is written to that connection, or is still on its way to it,
\* unless the connection lagged or died, in every interleaving of the
\* acceptor, the connection receiver and the task feeding the broadcast.
C34_RecordAfterAcceptReachesConnection ==
    (fanStage # "dead" /\ ~fanLagged) =>
        fanFedAfterAccept \subseteq (Range(fanWritten) \cup Range(fanRx))

\* C35: an in-memory storage never holds more records than its configured
\* capacity (storage_size of MemoryRingBuffer, max_records of MemoryStorage),
\* whatever the capacity, 0 included.
C35_MemoryHoldsAtMostCapacity ==
    backend.kind \in {"MemoryStorage", "MemoryRingBuffer"}
        => Len(files[Buffer]) <= backend.size

\* C36: a reader in offset mode returns records in strictly increasing
\* storage offset, whatever saves and overwrites come between its recv
\* calls: no record twice, none after a record saved later.
C36_OffsetReaderStrictlyIncreasing ==
    readMode = "Offset" =>
        \A j, k \in DOMAIN rdReturned :
            (j < k /\ rdReturned[j] # NoRecord /\ rdReturned[k] # NoRecord)
                => /\ rdReturned[j].offset < rdReturned[k].offset
                   /\ rdReturned[j].record < rdReturned[k].record

\* An offset reader that returned the first record and then the third: the
\* second was overwritten in the ring before it was read.
C36_Witness ==
    /\ readMode = "Offset"
    /\ ringConf.write_full = "overwrite"
    /\ Len(rdReturned) = 2
    /\ rdReturned[1].record = 1
    /\ rdReturned[2].record = 3

\* C37: a reader in offset mode loses no wake-up: when a save returned Ok
\* while a recv was pending, that recv returns.
C37_PendingRecvReturnsAfterSave ==
    (readMode = "Offset" /\ rdDue) ~> ~rdDue

\* C38: a reader in latest mode returns each record at most once.
C38_LatestReaderReturnsEachOnce ==
    readMode = "Latest" =>
        \A j, k \in DOMAIN rdReturned :
            (j < k /\ rdReturned[j] # NoRecord)
                => rdReturned[j] # rdReturned[k]

\* C39: a reload never leaves two instances of one processor name running:
\* every instance it spawns is, when reload returns, the only live task of
\* its name, the older instance having been signalled and joined first.
C39_ReloadNeverRunsTwoOfOneName ==
    [][rsReloads' = rsReloads + 1
          => \A s, t \in rsRunning' :
                (s.name = t.name /\ s.inst > rsSpawned[s.name]) => s = t]_vars

\* C40: a record is sent on a WebSocket connection only while the client is
\* subscribed to its topic and, when the client subscribed by key, only
\* when the record's key is among the keys now subscribed; nothing of a topic
\* is sent once its last key or the whole topic was unsubscribed.
C40_SentOnlyWhenSubscribed ==
    [][(Len(wsSent') = Len(wsSent) + 1
            /\ wsSent'[Len(wsSent')].type = "record")
          => LET m == wsSent'[Len(wsSent')] IN
             /\ wsSubs[m.topic].on
             /\ m.topic \in wsByKey => m.key \in wsSubs[m.topic].keys]_vars

====
